---- MODULE Spec2Model ----
(***************************************************************************)
(* A model of the manus-clone pipeline: ManusCloneWorkflow (main.py), the  *)
(* TaskExecutorAgent (agents/task_executor.py), the TaskUpdaterAgent       *)
(* (agents/task_updater.py), the ReportGeneratorAgent                      *)
(* (agents/report_generator.py) and the job table of api_server.py.        *)
(*                                                                         *)
(* Strings are TLA+ strings; Python's substring test, lower() and strip()  *)
(* are computed character by character.  Time is counted in whole seconds; *)
(* code between two awaits takes no time.                                  *)
(***************************************************************************)
EXTENDS Integers, Sequences, FiniteSets, TLC

\* ------------------------------------------------------------------ bounds

\* max_results ranges over 1..MaxResultsBound
MaxResultsBound == 2
\* an external call (LLM request, browser session) takes 0..MaxCallTime seconds
MaxCallTime == 1

\* ------------------------------------------------------- program constants

rate_limit_delay == 3
max_retries == 2

\* ----------------------------------------------------------------- strings

Min(a, b) == IF a < b THEN a ELSE b
Max(a, b) == IF a > b THEN a ELSE b

Range(s) == {s[i] : i \in 1..Len(s)}

\* Python's  kw in s
Contains(s, kw) == \E i \in 1..(Len(s) - Len(kw) + 1) : SubSeq(s, i, i + Len(kw) - 1) = kw

UpperChars == "ABCDEFGHIJKLMNOPQRSTUVWXYZ"
LowerChars == "abcdefghijklmnopqrstuvwxyz"

\* the lower-case letter of each upper-case letter
LowerOf == [i \in 1..26 |-> <<SubSeq(UpperChars, i, i), SubSeq(LowerChars, i, i)>>]
UpperSet == {LowerOf[i][1] : i \in 1..26}

LowerChar(c) ==
    IF c \in UpperSet
    THEN LowerOf[CHOOSE i \in 1..26 : LowerOf[i][1] = c][2]
    ELSE c

RECURSIVE LowerFrom(_, _)
LowerFrom(s, i) == IF i > Len(s) THEN "" ELSE LowerChar(SubSeq(s, i, i)) \o LowerFrom(s, i + 1)

\* Python's  s.lower()
Lower(s) == LowerFrom(s, 1)

\* the whitespace characters of str.strip() and of the regular expression class \s
IsSpace(c) == c \in {" ", "\t", "\n", "\r"}

RECURSIVE LStripFrom(_, _)
LStripFrom(s, i) ==
    IF i <= Len(s) /\ IsSpace(SubSeq(s, i, i)) THEN LStripFrom(s, i + 1) ELSE SubSeq(s, i, Len(s))

LStrip(s) == LStripFrom(s, 1)

RECURSIVE RStripTo(_, _)
RStripTo(s, j) ==
    IF j >= 1 /\ IsSpace(SubSeq(s, j, j)) THEN RStripTo(s, j - 1) ELSE SubSeq(s, 1, j)

RStrip(s) == RStripTo(s, Len(s))

\* Python's  s.strip()
Strip(s) == RStrip(LStrip(s))

\* the end (exclusive) of the run of non-space characters that starts at i
RECURSIVE TokenEnd(_, _)
TokenEnd(s, i) == IF i > Len(s) \/ IsSpace(SubSeq(s, i, i)) THEN i ELSE TokenEnd(s, i + 1)

UrlPrefixAt(s, i) ==
    IF i + 6 <= Len(s) /\ SubSeq(s, i, i + 6) = "http://" THEN 7
    ELSE IF i + 7 <= Len(s) /\ SubSeq(s, i, i + 7) = "https://" THEN 8
    ELSE 0

RECURSIVE FindUrls(_, _)
\* re.findall(r'https?://[^\s]+', s) scanning from position i
FindUrls(s, i) ==
    IF i > Len(s) THEN <<>>
    ELSE LET p == UrlPrefixAt(s, i)
             e == TokenEnd(s, i + p)
         IN IF p > 0 /\ e > i + p
            THEN <<SubSeq(s, i, e - 1)>> \o FindUrls(s, e)
            ELSE FindUrls(s, i + 1)

_extract_urls_from_input(input) == FindUrls(input, 1)

\* ------------------------------------------------------- intent classifier

LinkedinKeywords == {"linkedin", "profile", "professional profile", "resume", "cv"}

fact_keywords ==
    {"average", "avg", "salary", "salaries", "what is", "who is", "define", "definition",
     "statistics", "stats", "market size", "trend", "trends", "overview", "comparison", "vs",
     "benefits", "cons", "pros", "how much", "how many", "price", "cost"}

ScrapeKeywords == {"scrape", "extract", "data from", "crawl"}

SearchKeywords == {"search", "find", "look for"}

AnyIn(words, s) == \E w \in words : Contains(s, w)

\* a classifier that tests the scraping words first
analyze_task_type_scrape_first(input) ==
    LET input_lower == Lower(input)
    IN IF AnyIn(ScrapeKeywords, input_lower) THEN "data_scraping"
       ELSE IF AnyIn(LinkedinKeywords, input_lower) THEN "linkedin_search"
       ELSE IF AnyIn(fact_keywords, input_lower) THEN "web_only"
       ELSE IF AnyIn(SearchKeywords, input_lower) THEN "web_search"
       ELSE "web_only"

_analyze_task_type(input) ==
    LET input_lower == Lower(input)
    IN IF AnyIn(LinkedinKeywords, input_lower) THEN "linkedin_search"
       ELSE IF AnyIn(fact_keywords, input_lower) THEN "web_only"
       ELSE IF AnyIn(ScrapeKeywords, input_lower) THEN "data_scraping"
       ELSE IF AnyIn(SearchKeywords, input_lower) THEN "web_search"
       ELSE "web_only"

IsLinkedInProfileUrl(url) == Contains(url, "linkedin.com/in/")

\* --------------------------------------------------------- search results

\* SearchResult (task_executor.py): the url and the source; title, snippet and
\* relevance_score are never read by the control flow
SearchResult(url, source) == [url |-> url, source |-> source]

\* ScrapedData (task_executor.py): profile_url and source
ScrapedData(url, source) == [profile_url |-> url, source |-> source]

Take(s, n) == SubSeq(s, 1, Min(n, Len(s)))

\* Python's  n or d  for an integer n
OrDefault(n, d) == IF n = 0 THEN d ELSE n

_create_fallback_search_results(query) == <<SearchResult("", "search")>>

RECURSIVE DedupFrom(_, _, _)
DedupFrom(results, i, seen_urls) ==
    IF i > Len(results) THEN <<>>
    ELSE LET r == results[i]
         IN IF r.url # "" /\ r.url \notin seen_urls
            THEN <<r>> \o DedupFrom(results, i + 1, seen_urls \cup {r.url})
            ELSE IF r.url = "" THEN <<r>> \o DedupFrom(results, i + 1, seen_urls)
            ELSE DedupFrom(results, i + 1, seen_urls)

_deduplicate_results(results) == DedupFrom(results, 1, {})

_generate_fallback_queries(user_input, search_type) ==
    IF search_type = "linkedin"
    THEN <<user_input \o " LinkedIn", user_input \o " professional profile">>
    ELSE <<user_input, user_input \o " information">>

\* the two site-specific queries of the secondary LinkedIn pass
site_queries(user_input) ==
    <<"site:linkedin.com/in " \o user_input, user_input \o " site:linkedin.com/in">>

LinkedInUrls(results) ==
    LET hits == SelectSeq(results, LAMBDA r : IsLinkedInProfileUrl(r.url))
    IN [i \in 1..Len(hits) |-> hits[i].url]

OtherUrls(results) ==
    LET hits == SelectSeq(results, LAMBDA r : ~IsLinkedInProfileUrl(r.url) /\ r.url # "")
    IN [i \in 1..Len(hits) |-> hits[i].url]

\* ------------------------------------------------ LLM search responses

L1 == "https://www.linkedin.com/in/amy"
W1 == "https://a.io/x"
W2 == "https://b.org/y"

\* What the three extraction functions make of one response text:
\*   answer, sources, linkedin_profiles: _parse_structured_search_response
\*   json: the url of each item of _extract_results_json ("" for an item without url)
\*   text: the urls of _extract_search_results_from_text
Response(answer, json, sources, linkedin_profiles, text) ==
    [answer |-> answer, json |-> json, sources |-> sources,
     linkedin_profiles |-> linkedin_profiles, text |-> text]

Responses ==
    { Response("", <<>>, <<>>, <<>>, <<>>),
      Response("answer", <<>>, <<>>, <<>>, <<>>),
      Response("answer", <<L1, W1, W2>>, <<W1>>, <<L1>>, <<L1, W1, W2>>),
      Response("answer", <<>>, <<W1, W2>>, <<L1>>, <<W1, W2, L1>>),
      Response("", <<"">>, <<>>, <<>>, <<W2>>) }

\* lines 307-332: the results of one response, limited to max_results per query
results_from_response(resp, n) ==
    LET json_results == Take(resp.json, OrDefault(n, 5))
        from_json == [i \in 1..Len(json_results) |-> SearchResult(json_results[i], "web")]
        src == Take(resp.sources, OrDefault(n, 3))
        lin == Take(resp.linkedin_profiles, OrDefault(n, 3))
        from_sections ==
            [i \in 1..Len(src) |-> SearchResult(src[i], "web")]
                \o [i \in 1..Len(lin) |-> SearchResult(lin[i], "web")]
        results == IF from_json # <<>> THEN from_json ELSE from_sections
        with_url == SelectSeq(results, LAMBDA r : r.url # "")
        extracted == Take(resp.text, 3)
    IN IF with_url # <<>> THEN with_url
       ELSE [i \in 1..Len(extracted) |-> SearchResult(extracted[i], "web")]

\* a retry loop that also tries again after a response without results
web_search_attempt_retry_empty(attempt, raise, resp, n) ==
    IF raise \/ results_from_response(resp, n) = <<>>
    THEN IF attempt < max_retries - 1
         THEN [kind |-> "retry", results |-> <<>>]
         ELSE [kind |-> "return", results |-> <<>>]
    ELSE [kind |-> "return", results |-> results_from_response(resp, n)]

\* One iteration of the loop of _execute_web_search_with_retry: raise says
\* that the attempt raised, resp is the response otherwise.  kind says how the iteration
\* ends: "retry" (sleep 2, next attempt) or "return".
web_search_attempt(attempt, raise, resp, n) ==
    IF raise
    THEN IF attempt < max_retries - 1
         THEN [kind |-> "retry", results |-> <<>>]
         ELSE [kind |-> "return", results |-> <<>>]
    ELSE [kind |-> "return", results |-> results_from_response(resp, n)]

RECURSIVE MergeUnique(_, _)
MergeUnique(have, new) ==
    IF new = <<>> THEN have
    ELSE IF Head(new) # "" /\ Head(new) \notin Range(have)
         THEN MergeUnique(Append(have, Head(new)), Tail(new))
         ELSE MergeUnique(have, Tail(new))

_merge_search_context(ctx, parsed) ==
    [answer |-> IF parsed.answer # "" THEN parsed.answer ELSE ctx.answer,
     sources |-> MergeUnique(ctx.sources, parsed.sources),
     linkedin_profiles |-> MergeUnique(ctx.linkedin_profiles, parsed.linkedin_profiles)]

\* ------------------------------------------------------- response parsing

\* the bullet character U+2022, written as an ASCII character of its own
Bullet == "#"

\* Python's  s.startswith(prefix)
StartsWith(s, prefix) == Len(s) >= Len(prefix) /\ SubSeq(s, 1, Len(prefix)) = prefix

RECURSIVE LStripCharsFrom(_, _, _)
LStripCharsFrom(s, chars, i) ==
    IF i <= Len(s) /\ SubSeq(s, i, i) \in chars
    THEN LStripCharsFrom(s, chars, i + 1)
    ELSE SubSeq(s, i, Len(s))

\* Python's  s.lstrip(chars)
LStripChars(s, chars) == LStripCharsFrom(s, chars, 1)

RECURSIVE UpToSpace(_, _)
UpToSpace(s, i) ==
    IF i > Len(s) \/ SubSeq(s, i, i) = " " THEN SubSeq(s, 1, i - 1) ELSE UpToSpace(s, i + 1)

\* Python's  s.split(' ')[0]
FirstField(s) == UpToSpace(s, 1)

RECURSIVE Join(_)
\* Python's  '\n'.join(buffer)
Join(buffer) ==
    IF buffer = <<>> THEN ""
    ELSE IF Len(buffer) = 1 THEN buffer[1]
    ELSE buffer[1] \o "\n" \o Join(Tail(buffer))

\* The content of an LLM response: lines is content.splitlines(), without the
\* RESULTS_JSON block; json says what follows them: no block ("none"), a block
\* json.loads rejects ("malformed"), or a block with a results list
\* ("results"); urls are the url values of the block in order, "" for an item
\* without url.
Content(lines, kind, urls) == [lines |-> lines, json |-> [kind |-> kind, urls |-> urls]]

NoContent == Content(<<>>, "", <<>>)

NoSections == [answer |-> "", sources |-> <<>>, linkedin_profiles |-> <<>>]

\* a cleanup that keeps the entries that are no links
clean_keep_all(urls) == [i \in 1..Len(urls) |-> FirstField(urls[i])]

\* lines 393-394
clean(urls) ==
    LET kept == SelectSeq(urls, LAMBDA u : StartsWith(u, "http"))
    IN [i \in 1..Len(kept) |-> FirstField(kept[i])]

\* lines 368-387: one turn of the loop, for the stripped line ln
parse_line(st, ln) ==
    LET low == Lower(ln)
        closed == IF st.cur = "answer"
                  THEN [st.sections EXCEPT !.answer = Strip(Join(st.buffer))]
                  ELSE st.sections
    IN IF StartsWith(low, "answer:")
       THEN [cur |-> "answer", buffer |-> <<Strip(SubSeq(ln, 8, Len(ln)))>>, sections |-> closed]
       ELSE IF StartsWith(low, "sources:")
       THEN [cur |-> "sources", buffer |-> <<>>, sections |-> closed]
       ELSE IF StartsWith(low, "linkedin profiles")
       THEN [cur |-> "linkedin", buffer |-> <<>>, sections |-> closed]
       ELSE IF st.cur = "answer"
       THEN [st EXCEPT !.buffer = Append(@, ln)]
       ELSE IF st.cur \in {"sources", "linkedin"} /\ (StartsWith(ln, "-") \/ StartsWith(ln, Bullet))
       THEN LET url == Strip(LStripChars(Strip(SubSeq(ln, 2, Len(ln))), {"*", Bullet, "-", " "}))
                key == IF st.cur = "sources" THEN "sources" ELSE "linkedin_profiles"
            IN [st EXCEPT !.sections[key] = Append(@, url)]
       ELSE st

RECURSIVE parse_lines(_, _, _)
\* lines 365-387: the loop over the stripped lines, from line i on
parse_lines(st, lines, i) ==
    IF i > Len(lines) THEN st
    ELSE parse_lines(parse_line(st, Strip(lines[i])), lines, i + 1)

\* _parse_structured_search_response(content), lines 360-399
_parse_structured_search_response(c) ==
    LET st == parse_lines([cur |-> "", buffer |-> <<>>, sections |-> NoSections], c.lines, 1)
        answer == IF st.cur = "answer" /\ st.sections.answer = ""
                  THEN Strip(Join(st.buffer))
                  ELSE st.sections.answer
    IN [answer |-> answer,
        sources |-> clean(st.sections.sources),
        linkedin_profiles |-> clean(st.sections.linkedin_profiles)]

\* _extract_results_json(content): the items of the results list, each as its url
_extract_results_json(c) == IF c.json.kind = "results" THEN c.json.urls ELSE <<>>

\* the characters that end a match of https?://[^\s\)\]\"\'\}>]+
EndsUrl(ch) == IsSpace(ch) \/ ch \in {")", "]", "\"", "'", "}", ">"}

RECURSIVE UrlEnd(_, _)
UrlEnd(s, i) == IF i > Len(s) \/ EndsUrl(SubSeq(s, i, i)) THEN i ELSE UrlEnd(s, i + 1)

RECURSIVE FindLinks(_, _)
\* re.findall(r'https?://[^\s\)\]\"\'\}>]+', s) scanning from position i
FindLinks(s, i) ==
    IF i > Len(s) THEN <<>>
    ELSE LET p == UrlPrefixAt(s, i)
             e == UrlEnd(s, i + p)
         IN IF p > 0 /\ e > i + p
            THEN <<SubSeq(s, i, e - 1)>> \o FindLinks(s, e)
            ELSE FindLinks(s, i + 1)

RECURSIVE LinksOfLines(_, _)
LinksOfLines(lines, i) ==
    IF i > Len(lines) THEN <<>> ELSE FindLinks(lines[i], 1) \o LinksOfLines(lines, i + 1)

RECURSIVE UniqueUpTo(_, _, _)
\* lines 348-355: the first max_n different urls
UniqueUpTo(urls, unique, max_n) ==
    IF urls = <<>> THEN unique
    ELSE LET more == IF Head(urls) \in Range(unique) THEN unique ELSE Append(unique, Head(urls))
         IN IF Len(more) >= max_n THEN more ELSE UniqueUpTo(Tail(urls), more, max_n)

\* _extract_search_results_from_text(content, max_n): the links of the lines,
\* then those of the block, whose text holds each url value that is not empty
_extract_search_results_from_text(c, max_n) ==
    UniqueUpTo(LinksOfLines(c.lines, 1) \o SelectSeq(c.json.urls, LAMBDA u : u # ""), <<>>, max_n)

\* lines 302-307 and 326: what the three extraction functions make of content
ResponseOf(c) ==
    LET sections == _parse_structured_search_response(c)
    IN Response(sections.answer, _extract_results_json(c), sections.sources,
                sections.linkedin_profiles, _extract_search_results_from_text(c, 3))

\* ------------------------------------------------------------ rate limiter

\* time.time() - last_api_call is only compared with rate_limit_delay: any
\* value from rate_limit_delay up behaves alike
Saturate(t) == Min(t, rate_limit_delay)

\* a limiter that never sleeps
rate_limit_no_sleep(time_since_last_call) == 0

\* _rate_limit: the time slept before last_api_call is set
rate_limit_sleep(time_since_last_call) ==
    IF time_since_last_call < rate_limit_delay
    THEN rate_limit_delay - time_since_last_call
    ELSE 0

Durations == 0..MaxCallTime
NoRequest == 0 - 1

\* -------------------------------------------------------------- task table

\* TaskUpdaterAgent._update_overall_progress; the weights are in tenths and
\* the result is the fraction num / den
TaskWeight(task_type) ==
    CASE task_type = "linkedin_scraping" -> 6
      [] task_type = "other_scraping" -> 2
      [] OTHER -> 1

\* a FAILED task counted with its whole percentage
task_contribution_failed_full(task) ==
    CASE task.status = "completed" -> 100
      [] task.status = "in_progress" -> task.progress_percentage
      [] task.status = "failed" -> task.progress_percentage
      [] OTHER -> 0

TaskContribution(task) ==
    CASE task.status = "completed" -> 100
      [] task.status = "in_progress" -> task.progress_percentage
      [] task.status = "failed" -> Min(task.progress_percentage, 50)
      [] OTHER -> 0

RECURSIVE SumWeighted(_, _)
SumWeighted(ts, ids) ==
    IF ids = {} THEN 0
    ELSE LET id == CHOOSE x \in ids : TRUE
         IN TaskWeight(ts[id].task_type) * TaskContribution(ts[id]) + SumWeighted(ts, ids \ {id})

RECURSIVE SumWeights(_, _)
SumWeights(ts, ids) ==
    IF ids = {} THEN 0
    ELSE LET id == CHOOSE x \in ids : TRUE
         IN TaskWeight(ts[id].task_type) + SumWeights(ts, ids \ {id})

_update_overall_progress(ts) ==
    IF DOMAIN ts = {} THEN [num |-> 0, den |-> 1]
    ELSE [num |-> SumWeighted(ts, DOMAIN ts), den |-> SumWeights(ts, DOMAIN ts)]

NoTasks == [id \in {} |-> 0]
NoProgress == 0 - 1
NoError == ""

\* TaskUpdaterAgent.create_task
create_task(ts, task_id, task_type) ==
    [id \in DOMAIN ts \cup {task_id} |->
        IF id = task_id
        THEN [task_type |-> task_type, status |-> "pending", progress_percentage |-> 0,
              error_message |-> NoError]
        ELSE ts[id]]

\* an update that stores the progress as it was passed
update_task_status_no_clamp(ts, task_id, status, progress_percentage, error_message) ==
    IF task_id \notin DOMAIN ts THEN ts
    ELSE [ts EXCEPT ![task_id] =
            [task_type |-> @.task_type,
             status |-> status,
             progress_percentage |->
                 IF progress_percentage # NoProgress THEN progress_percentage
                 ELSE @.progress_percentage,
             error_message |-> IF error_message # "" THEN error_message ELSE @.error_message]]

\* TaskUpdaterAgent.update_task_status: the task table after the call
update_task_status(ts, task_id, status, progress_percentage, error_message) ==
    IF task_id \notin DOMAIN ts THEN ts
    ELSE [ts EXCEPT ![task_id] =
            [task_type |-> @.task_type,
             status |-> status,
             progress_percentage |->
                 IF progress_percentage # NoProgress
                 THEN Min(Max(progress_percentage, 0), 100)
                 ELSE @.progress_percentage,
             error_message |-> IF error_message # "" THEN error_message ELSE @.error_message]]

\* TaskUpdaterAgent.log_error; error is str(exception)
log_error(ts, task_id, error) == update_task_status(ts, task_id, "failed", NoProgress, error)

\* overall_progress after update_task_status(task_id, ...) turned ts0 into ts1:
\* an unknown task id returns before _update_overall_progress
ProgressAfterUpdate(ts1, task_id, old_progress) ==
    IF task_id \notin DOMAIN ts1 THEN old_progress ELSE _update_overall_progress(ts1)

\* ------------------------------------------------------------------- state

\* ------------------------------------ extract_experience, detail-page pass

\* for item in exp_items[:5], line 547
ItemLimit == 5

\* the most list items the details page shows
MaxItems == 6

\* a nested role of an item: the texts of its three elements, "" for an
\* element that is missing
Role(t, c, d) == [title |-> t, company |-> c, duration |-> d]

\* a list item: the texts of the elements the title, company and duration
\* selectors match, in selector order, its nested roles, and whether the
\* first query on it raises
Item(titles, companies, durations, nested, raises) ==
    [titles |-> titles, companies |-> companies, durations |-> durations,
     nested |-> nested, raises |-> raises]

\* an entry of the experience list; "" stands for a key the dict has not
Entry(t, c, d) == [title |-> t, company |-> c, duration |-> d]

edu_words == {"university", "college", "bachelor", "master", "phd", "degree"}

exclude_keywords ==
    {"top skills", "skills", "skill", "endorsement", "endorsed", "show more",
      "see all", "view more", "expand", "collapse", "programming language",
      "activity", "posts", "likes", "comments", "shares", "reactions",
      "connections", "followers", "following", "about"}

\* lines 561-567, 578-584 and 595-601: the text of the first selector whose
\* element has a text of more than 2 characters and, for title and company,
\* no education word
RECURSIVE first_text(_, _, _)
first_text(texts, i, no_edu) ==
    IF i > Len(texts) THEN ""
    ELSE LET t == Strip(texts[i])
         IN IF Len(t) > 2 /\ (no_edu => ~AnyIn(edu_words, Lower(t))) THEN t
            ELSE first_text(texts, i + 1, no_edu)

\* lines 549-601: exp_data after the three cascades
exp_data_of(item) ==
    Entry(first_text(item.titles, 1, TRUE), first_text(item.companies, 1, TRUE),
          first_text(item.durations, 1, FALSE))

\* lines 605-618: the entries of the first three nested roles that have a
\* title and a company
RECURSIVE nested_entries(_, _)
nested_entries(roles, i) ==
    IF i > Min(Len(roles), 3) THEN <<>>
    ELSE LET rtitle == Strip(roles[i].title)
             rcomp == Strip(roles[i].company)
             rdur == Strip(roles[i].duration)
         IN (IF rtitle # "" /\ rcomp # "" THEN <<Entry(rtitle, rcomp, rdur)>> ELSE <<>>)
                \o nested_entries(roles, i + 1)

\* line 624: exp_data has a title or a company
has_title_or_company(d) == d.title # "" \/ d.company # ""

\* lines 631-643: exclude_keywords, the bullet test and title == company
is_excluded(d) ==
    \/ AnyIn(exclude_keywords, Lower(d.title)) \/ AnyIn(exclude_keywords, Lower(d.company))
    \/ StartsWith(d.title, Bullet) \/ StartsWith(d.company, Bullet)
    \/ d.title # "" /\ d.company # "" /\ d.title = d.company

\* lines 646-647: title_ok and company_ok
length_ok(d) ==
    /\ d.title = "" \/ Len(d.title) >= 2
    /\ d.company = "" \/ Len(d.company) >= 2

\* lines 624-650: the list after the relaxed acceptance test on exp_data
accept(exp, d) ==
    IF has_title_or_company(d) /\ ~is_excluded(d) /\ length_ok(d) THEN Append(exp, d) ELSE exp

\* lines 548-654: the list after one pass of the loop body on item, d being
\* exp_data_of(item)
extract_item(exp, item, d) ==
    IF item.raises THEN exp
    ELSE IF d.title = ""
         THEN LET with_roles == exp \o nested_entries(item.nested, 1)
              IN IF with_roles # <<>> THEN with_roles ELSE accept(with_roles, d)
         ELSE accept(exp, d)

VARIABLES
    pc,                 \* the place one workflow run has reached
    user_input,         \* ManusCloneWorkflow.user_input (and the executor's)
    max_results,        \* the max_results argument of execute_workflow
    tasks,              \* TaskUpdaterAgent.tasks
    overall_progress,   \* TaskUpdaterAgent.overall_progress, as num / den
    scraped_data,       \* ManusCloneWorkflow.scraped_data
    cleaned_data,       \* ManusCloneWorkflow.cleaned_data: <<>> is None, <<rows>> a DataFrame
    final_report,       \* ManusCloneWorkflow.final_report ("" is None)
    results,            \* what execute_workflow returned: <<>> or <<the dict>>
    raised,             \* the exception execute_workflow let escape: <<>>, or str(e)
                        \* and the step whose except clause saw it first
    files,              \* the kinds of output file written so far (a write that fails is
                        \* logged and changes nothing else: writes are taken to succeed)
    task_type,          \* the result of _analyze_task_type
    pass,               \* linkedin_search: "first" or "second" search pass
    search_queries,     \* the queries _perform_web_search works on
    qi,                 \* _perform_web_search: index of the current query
    attempt,            \* _execute_web_search_with_retry: the loop variable
    all_results,        \* _perform_web_search: all_results
    search_results,     \* TaskExecutorAgent.search_results
    ex_scraped_data,    \* TaskExecutorAgent.scraped_data
    work,               \* the url list the current scraping loop iterates over
    ui,                 \* index into work
    count_added,        \* _scrape_other_websites: count_added
    since_last_call,    \* time.time() - TaskExecutorAgent.last_api_call, saturated
    last_search_context,\* TaskExecutorAgent.last_search_context
    calls,              \* history: the components called so far, in order
    since_request,      \* history: seconds since the last rate-limited LLM request
    request_gap,        \* history: seconds between the last two such requests
    last_attempt,       \* history: the web search attempt just made, if the last step made one
    report_step,        \* generate_report: the next component to call (0: not called)
    ai_analysis,        \* generate_report: ai_analysis, <<>> while unbound
    summary_stats,      \* generate_report: summary_stats, <<>> while unbound
    jobs,               \* api_server.jobs: job id -> JobState
    tasks_bg,           \* the asyncio tasks of _run_workflow_background, by job id
    http,               \* the last request to POST /api/run: its input, and the status
                        \* code and job_id of the answer
    status_log,         \* history: the values assigned to each job's status, in order
    api_answer,         \* the answer to the last GET /api/results/{job_id}
    last_op,            \* history: the last TaskUpdaterAgent method called from outside
    generated_charts,   \* ReportGeneratorAgent.generated_charts
    last_report,        \* history: report_format['include_charts'] of the last
                        \* generate_report call, and the charts it gave the template
    response,           \* one web search attempt on its own: the content of the LLM response
    parsed,             \* ... what _parse_structured_search_response made of it
    attempt_results,    \* ... max_results and the results the attempt returned
    scrape_pc,          \* LinkedInProfileScraper.scrape_profile: where the call is
    scrape_url,         \* ... its url argument
    browser,            \* ... the browser of the call: "none", "open" or "closed"
    pending,            \* ... how the try body ended, while the finally clause runs
    scrape_events,      \* history: what the call did to the browser, in order
    scrape_result,      \* what the last call returned
    scrapes,            \* history: the number of calls that have returned
    exp_pc,             \* LinkedInProfileScraper.extract_experience: where the call is
    exp_items,          \* ... len(exp_items) on the experience details page
    exp_done,           \* ... the number of items the loop of line 547 has handled
    exp_seen,           \* history: the items the loop has handled, in order
    experience          \* ... the list the call builds and returns

wf_vars == <<tasks, overall_progress, scraped_data, cleaned_data, final_report, results, raised>>
ex_vars == <<task_type, pass, search_queries, qi, attempt, all_results, search_results,
             ex_scraped_data, work, ui, count_added, last_search_context>>
time_vars == <<since_last_call, since_request, request_gap>>
hist_vars == <<last_attempt>>
rp_vars == <<report_step, ai_analysis, summary_stats>>
api_vars == <<jobs, tasks_bg, http, status_log, api_answer>>
upd_vars == <<last_op>>
chart_vars == <<generated_charts, last_report>>
parse_vars == <<response, parsed, attempt_results>>
scraper_vars == <<scrape_pc, scrape_url, browser, pending, scrape_events, scrape_result, scrapes>>
exp_vars == <<exp_pc, exp_items, exp_done, exp_seen, experience>>
unit_vars == <<parse_vars, scraper_vars, exp_vars>>
other_vars == <<api_vars, upd_vars, chart_vars, unit_vars>>
run_vars == <<pc, user_input, max_results, wf_vars, files, ex_vars, time_vars, calls, hist_vars,
              rp_vars, upd_vars, chart_vars, unit_vars>>
vars == <<run_vars, api_vars>>

UserInputs ==
    { "linkedin ai engineers",
      "scrape https://www.linkedin.com/in/bob",
      "Extract https://LinkedIn.com/in/amy",
      "average salary of nurses",
      "scrape http://x.io/a https://y.org/b",
      "crawl tech blogs",
      "find python tutorials",
      "hello world" }

\* _analyze_task_type and _extract_urls_from_input on each of the inputs,
\* computed once
task_types == [input \in UserInputs |-> _analyze_task_type(input)] @@ <<>>
input_urls == [input \in UserInputs |-> _extract_urls_from_input(input)] @@ <<>>

\* what an LLM may answer to the query-generation prompt, as a JSON list
QueryLists == {<<>>, <<"q1">>, <<"q1", "q2", "q3">>}

\* str(e) of the exceptions a step may raise
ErrorTexts == {"", "error"}

NoAttempt == [number |-> 0, raised |-> FALSE, found |-> 0, kind |-> "", returned |-> 0]

NoJobs == [id \in {} |-> 0]

NoReport == [called |-> FALSE, include_charts |-> FALSE, before |-> 0, charts |-> <<>>]

NoOp == [op |-> "", task_id |-> "", progress_percentage |-> NoProgress]

EmptyContext == [answer |-> "", sources |-> <<>>, linkedin_profiles |-> <<>>]

Init ==
    /\ pc = "idle"
    /\ user_input = ""
    /\ max_results = 0
    /\ tasks = NoTasks
    /\ overall_progress = [num |-> 0, den |-> 1]
    /\ scraped_data = <<>>
    /\ cleaned_data = <<>>
    /\ final_report = ""
    /\ results = <<>>
    /\ raised = <<>>
    /\ files = {}
    /\ task_type = ""
    /\ pass = "first"
    /\ search_queries = <<>>
    /\ qi = 0
    /\ attempt = 0
    /\ all_results = <<>>
    /\ search_results = <<>>
    /\ ex_scraped_data = <<>>
    /\ work = <<>>
    /\ ui = 0
    /\ count_added = 0
    /\ since_last_call = Saturate(rate_limit_delay)
    /\ last_search_context = EmptyContext
    /\ calls = <<>>
    /\ since_request = NoRequest
    /\ request_gap = NoRequest
    /\ last_attempt = NoAttempt
    /\ report_step = 0
    /\ ai_analysis = <<>>
    /\ summary_stats = <<>>
    /\ jobs = NoJobs
    /\ tasks_bg = NoJobs
    /\ http = [input |-> "", status |-> 0, job_id |-> 0]
    /\ status_log = NoJobs
    /\ api_answer = [job_id |-> 0, status |-> 0]
    /\ last_op = NoOp
    /\ generated_charts = <<>>
    /\ last_report = NoReport
    /\ response = NoContent
    /\ parsed = NoSections
    /\ attempt_results = [n |-> 0, results |-> <<>>]
    /\ scrape_pc = "idle"
    /\ scrape_url = ""
    /\ browser = "none"
    /\ pending = ""
    /\ scrape_events = <<>>
    /\ scrape_result = ""
    /\ scrapes = 0
    /\ exp_pc = "idle"
    /\ exp_items = 0
    /\ exp_done = 0
    /\ exp_seen = <<>>
    /\ experience = <<>>

\* ------------------------------------------------------------------- time

\* d seconds pass
TimePasses(d) ==
    /\ since_last_call' = Saturate(since_last_call + d)
    /\ since_request' = IF since_request = NoRequest THEN NoRequest ELSE Saturate(since_request + d)
    /\ request_gap' = request_gap

\* await self._rate_limit(), then the LLM request, which takes d seconds, then
\* a sleep of extra seconds
RateLimitedRequest(d, extra) ==
    LET slept == rate_limit_sleep(since_last_call)
    IN /\ since_last_call' = Saturate(d + extra)
       /\ request_gap' = IF since_request = NoRequest THEN NoRequest
                         ELSE Saturate(since_request + slept)
       /\ since_request' = Saturate(d + extra)

\* ------------------------------------------------------ TaskExecutorAgent

\* where execute_tasks goes on once search_results is set
after_web_search(sr) ==
    CASE task_type = "linkedin_search" -> "scrape_linkedin_profiles"
      [] task_type = "web_only" ->
            IF LinkedInUrls(sr) # <<>> THEN "scrape_linkedin_profiles" ELSE "web_only_add"
      [] OTHER -> "scrape_other_websites"

\* where execute_tasks goes on once _scrape_linkedin_profiles returns
after_scrape_linkedin ==
    CASE task_type = "linkedin_search" /\ pass = "first" -> "linkedin_second_pass"
      [] task_type = "linkedin_search" -> "scrape_other_websites"
      [] OTHER -> "web_only_add"

\* execute_tasks up to the first await: the intent classifier and the dispatch
ExecuteTasks ==
    /\ pc = "execute_tasks"
    /\ task_type' = task_types[user_input]
    /\ calls' = Append(calls, "_analyze_task_type")
    /\ LET urls == input_urls[user_input]
       IN IF task_type' = "data_scraping" /\ urls # <<>>
          THEN /\ work' = Take(urls, max_results)
               /\ ui' = 1
               /\ pc' = IF work' = <<>> THEN "execute_return" ELSE "scrape_specific_urls"
          ELSE /\ pc' = "generate_search_queries"
               /\ UNCHANGED <<work, ui>>
    /\ UNCHANGED <<other_vars, rp_vars, user_input, max_results, wf_vars, files, pass, search_queries, qi, attempt,
                   all_results, search_results, ex_scraped_data, count_added,
                   last_search_context, time_vars, hist_vars>>

\* _generate_search_queries: the LLM answers a JSON list (cut to 2 queries), or
\* the call fails or answers something else and the fallback queries are used
GenerateSearchQueries ==
    /\ pc = "generate_search_queries"
    /\ \E d \in Durations :
         /\ RateLimitedRequest(d, 0)
         /\ \/ \E queries \in QueryLists : search_queries' = Take(queries, 2)
            \/ search_queries' = _generate_fallback_queries(user_input,
                    IF task_type = "linkedin_search" THEN "linkedin" ELSE "web")
    /\ calls' = Append(calls, "_generate_search_queries")
    /\ pc' = "perform_web_search"
    /\ UNCHANGED <<other_vars, rp_vars, user_input, max_results, wf_vars, files, task_type, pass, qi, attempt,
                   all_results, search_results, ex_scraped_data, work, ui, count_added,
                   last_search_context, hist_vars>>

\* _perform_web_search, up to the first query
PerformWebSearch ==
    /\ pc = "perform_web_search"
    /\ calls' = Append(calls, "_perform_web_search")
    /\ all_results' = <<>>
    /\ attempt' = 0
    /\ last_attempt' = NoAttempt
    /\ IF search_queries = <<>>
       THEN /\ search_results' = _deduplicate_results(<<>>)
            /\ pc' = after_web_search(search_results')
            /\ qi' = 0
       ELSE /\ pc' = "web_search_attempt"
            /\ qi' = 1
            /\ UNCHANGED search_results
    /\ UNCHANGED <<other_vars, rp_vars, user_input, max_results, wf_vars, files, task_type, pass,
                   search_queries, ex_scraped_data, work, ui, count_added, last_search_context,
                   time_vars>>

\* number: which request for its query the attempt was; raised: whether it
\* raised; found: how many results its response gave; kind: how it ended;
\* returned: how many results the function returned, if it returned
Attempt(number, did_raise, found, kind, returned) ==
    [number |-> number, raised |-> did_raise, found |-> found, kind |-> kind,
     returned |-> returned]

RaiseOutcome == [raise |-> TRUE, resp |-> Response("", <<>>, <<>>, <<>>, <<>>)]
AttemptOutcomes == {RaiseOutcome} \cup {[raise |-> FALSE, resp |-> r] : r \in Responses}

\* One attempt of _execute_web_search_with_retry for query qi, and, when it
\* ends the query, the rest of the loop body of _perform_web_search
ExecuteWebSearchAttempt ==
    /\ pc = "web_search_attempt"
    /\ \E d \in Durations, o \in AttemptOutcomes :
        LET n == max_results \div Len(search_queries)
            step == web_search_attempt(attempt, o.raise, o.resp, n)
            query_results == IF step.results = <<>>
                             THEN _create_fallback_search_results(search_queries[qi])
                             ELSE step.results
            last == qi = Len(search_queries)
            number == IF last_attempt.kind = "retry" THEN last_attempt.number + 1 ELSE 1
        IN /\ RateLimitedRequest(d, CASE step.kind = "retry" -> 2
                                      [] step.kind = "return" /\ ~last -> 1
                                      [] OTHER -> 0)
           /\ last_search_context' = IF o.raise THEN last_search_context
                                     ELSE _merge_search_context(last_search_context, o.resp)
           /\ files' = files \cup (IF ~o.raise THEN {"search_raw"} ELSE {})
                             \cup (IF step.kind = "return" THEN {"search_response"} ELSE {})
           /\ last_attempt' = Attempt(number, o.raise,
                                      IF o.raise THEN 0 ELSE Len(results_from_response(o.resp, n)),
                                      step.kind, Len(step.results))
           /\ calls' = IF attempt = 0 THEN Append(calls, "_execute_web_search_with_retry")
                       ELSE calls
           /\ CASE step.kind = "retry" ->
                    /\ attempt' = attempt + 1
                    /\ UNCHANGED <<pc, qi, all_results, search_results>>
                [] step.kind = "return" /\ ~last ->
                    /\ all_results' = all_results \o query_results
                    /\ qi' = qi + 1
                    /\ attempt' = 0
                    /\ UNCHANGED <<pc, search_results>>
                [] step.kind = "return" /\ last ->
                    /\ search_results' = _deduplicate_results(all_results \o query_results)
                    /\ pc' = after_web_search(search_results')
                    /\ qi' = 0 /\ attempt' = 0 /\ all_results' = <<>>
                [] OTHER ->
                    \* an exception out of the retry loop: lines 257-259
                    /\ search_results' = _create_fallback_search_results("fallback")
                    /\ pc' = after_web_search(search_results')
                    /\ qi' = 0 /\ attempt' = 0 /\ all_results' = <<>>
    /\ search_queries' = IF pc' = pc THEN search_queries ELSE <<>>
    /\ UNCHANGED <<other_vars, rp_vars, user_input, max_results, wf_vars, task_type, pass,
                   ex_scraped_data, work, ui, count_added>>

\* _scrape_linkedin_profiles up to the first scrape: the url list, and the
\* LinkedInScraper, whose constructor raises without credentials
ScrapeLinkedinProfiles ==
    /\ pc = "scrape_linkedin_profiles"
    /\ LET linkedin_urls == Take(LinkedInUrls(search_results), max_results)
       IN \E credentials \in BOOLEAN :
            IF linkedin_urls = <<>> \/ ~credentials
            THEN /\ pc' = after_scrape_linkedin
                 /\ UNCHANGED <<work, ui>>
            ELSE /\ pc' = "scrape_profile"
                 /\ work' = linkedin_urls
                 /\ ui' = 1
    /\ last_attempt' = NoAttempt
    /\ UNCHANGED <<other_vars, rp_vars, user_input, max_results, wf_vars, files, task_type, pass, search_queries, qi,
                   attempt, all_results, search_results, ex_scraped_data, count_added,
                   last_search_context, time_vars, calls>>

\* one iteration of the loop of _scrape_linkedin_profiles: scrape_profile
\* returns the profile, or returns None or raises
ScrapeProfile ==
    /\ pc = "scrape_profile"
    /\ \E d \in Durations, profile_data \in BOOLEAN :
         /\ TimePasses(d)
         /\ ex_scraped_data' = IF profile_data
                               THEN Append(ex_scraped_data, ScrapedData(work[ui], "LinkedIn"))
                               ELSE ex_scraped_data
    /\ calls' = Append(calls, "scrape_profile")
    /\ IF ui < Len(work)
       THEN ui' = ui + 1 /\ pc' = pc /\ work' = work
       ELSE ui' = 0 /\ pc' = after_scrape_linkedin /\ work' = <<>>
    /\ UNCHANGED <<other_vars, rp_vars, user_input, max_results, wf_vars, files, task_type, pass, search_queries, qi,
                   attempt, all_results, search_results, count_added,
                   last_search_context, hist_vars>>

\* _execute_linkedin_search after the first scraping pass: lines 110-122
LinkedinSecondPass ==
    /\ pc = "linkedin_second_pass"
    /\ IF LinkedInUrls(search_results) = <<>>
       THEN /\ search_queries' = site_queries(user_input)
            /\ pass' = "second"
            /\ pc' = "perform_web_search"
       ELSE /\ pc' = "scrape_other_websites"
            /\ UNCHANGED <<search_queries, pass>>
    /\ UNCHANGED <<other_vars, rp_vars, user_input, max_results, wf_vars, files, task_type, qi, attempt, all_results,
                   search_results, ex_scraped_data, work, ui, count_added,
                   last_search_context, time_vars, calls, hist_vars>>

\* _scrape_other_websites up to the first url
ScrapeOtherWebsites ==
    /\ pc = "scrape_other_websites"
    /\ LET other_urls == OtherUrls(search_results)
       IN IF other_urls = <<>> \/ 0 >= max_results
          THEN /\ pc' = "execute_return"
               /\ UNCHANGED <<work, ui, count_added>>
          ELSE /\ pc' = "enrich_url"
               /\ work' = other_urls
               /\ ui' = 1
               /\ count_added' = 0
    /\ last_attempt' = NoAttempt
    /\ UNCHANGED <<other_vars, rp_vars, user_input, max_results, wf_vars, files, task_type, pass, search_queries, qi,
                   attempt, all_results, search_results, ex_scraped_data,
                   last_search_context, time_vars, calls>>

\* one iteration of the loop of _scrape_other_websites: _enrich_url_with_llm,
\* then the record is appended, unless building it raises
EnrichUrl ==
    /\ pc = "enrich_url"
    /\ \E d \in Durations, appended \in BOOLEAN :
         /\ RateLimitedRequest(d, 0)
         /\ ex_scraped_data' = IF appended
                               THEN Append(ex_scraped_data, ScrapedData(work[ui], "Compound-Beta"))
                               ELSE ex_scraped_data
         /\ count_added' = IF appended THEN count_added + 1 ELSE count_added
    /\ IF ui < Len(work) /\ count_added' < max_results
       THEN ui' = ui + 1 /\ pc' = pc /\ work' = work
       ELSE ui' = 0 /\ pc' = "execute_return" /\ work' = <<>>
    /\ UNCHANGED <<other_vars, rp_vars, user_input, max_results, wf_vars, files, task_type, pass, search_queries, qi,
                   attempt, all_results, search_results, last_search_context, calls, hist_vars>>

RECURSIVE MinimalEntries(_, _, _)
\* lines 153-175: the records added for the non-LinkedIn results from index i on
MinimalEntries(sr, i, room) ==
    IF i > Len(sr) \/ room <= 0 THEN <<>>
    ELSE IF sr[i].url = "" \/ IsLinkedInProfileUrl(sr[i].url)
         THEN MinimalEntries(sr, i + 1, room)
         ELSE <<ScrapedData(sr[i].url, "Compound-Beta")>> \o MinimalEntries(sr, i + 1, room - 1)

\* _execute_web_only after the LinkedIn pass: minimal entries for the other urls
WebOnlyAdd ==
    /\ pc = "web_only_add"
    /\ ex_scraped_data' = ex_scraped_data \o MinimalEntries(search_results, 1, max_results)
    /\ pc' = "execute_return"
    /\ last_attempt' = NoAttempt
    /\ UNCHANGED <<other_vars, rp_vars, user_input, max_results, wf_vars, files, task_type, pass, search_queries, qi,
                   attempt, all_results, search_results, work, ui, count_added,
                   last_search_context, time_vars, calls>>

\* one iteration of the loop of _scrape_specific_urls: a LinkedIn profile url
\* is scraped; any other url calls _scrape_with_firecrawl, which the class
\* does not define, and the AttributeError is logged
ScrapeSpecificUrls ==
    /\ pc = "scrape_specific_urls"
    /\ IF IsLinkedInProfileUrl(work[ui])
       THEN \E d \in Durations, credentials \in BOOLEAN, profile_data \in BOOLEAN :
              IF credentials
              THEN /\ TimePasses(d)
                   /\ ex_scraped_data' =
                        IF profile_data
                        THEN Append(ex_scraped_data, ScrapedData(work[ui], "LinkedIn"))
                        ELSE ex_scraped_data
                   /\ calls' = Append(calls, "scrape_profile")
              ELSE UNCHANGED <<ex_scraped_data, calls, time_vars>>
       ELSE UNCHANGED <<ex_scraped_data, calls, time_vars>>
    /\ IF ui < Len(work)
       THEN ui' = ui + 1 /\ pc' = pc /\ work' = work
       ELSE ui' = 0 /\ pc' = "execute_return" /\ work' = <<>>
    /\ UNCHANGED <<other_vars, rp_vars, user_input, max_results, wf_vars, files, task_type, pass, search_queries, qi,
                   attempt, all_results, search_results, count_added,
                   last_search_context, hist_vars>>

\* ---------------------------------------------------- ManusCloneWorkflow

\* the order in which generate_report calls its three components (lines 39-47),
\* were the statistics computed first
generate_report_calls_stats_first ==
    <<"_generate_summary_statistics", "_generate_ai_analysis", "_create_report">>

\* the order in which generate_report calls its three components (lines 39-47)
generate_report_calls ==
    <<"_generate_ai_analysis", "_generate_summary_statistics", "_create_report">>

\* a generate_report that keeps the charts when the format asks for charts
generate_report_charts_if_asked(include_charts, charts) ==
    IF include_charts THEN charts ELSE <<>>

\* generate_report, lines 34-37: generated_charts at the start of the call
generate_report_charts(include_charts, charts) == <<>>

\* a call of generate_report: before is the number of charts there were when
\* it was called, charts are the charts in the template's data (line 410)
ReportCall(include_charts, before, charts) ==
    [called |-> TRUE, include_charts |-> include_charts, before |-> before, charts |-> charts]

NoDataReport == "# No Data Report"

\* a raw-data save that also writes the report file
save_raw_data_writes_report(fs) == fs \cup {"raw_data", "report"}

\* _save_raw_data, _save_cleaned_data, _save_report: the output files after the
\* call (a failed write is only logged)
_save_raw_data(fs) == fs \cup {"raw_data"}
_save_cleaned_data(fs) == fs \cup {"cleaned_data"}
_save_report(fs) == fs \cup {"report"}

Row(profile_url, name, source) == [profile_url |-> profile_url, name |-> name, source |-> source]

\* a DataFrame builder that never injects the web answer
prepare_dataframe_no_answer(data, answer) ==
    [i \in 1..Len(data) |-> Row(data[i].profile_url, "name", data[i].source)]

\* _step_prepare_dataframe, lines 253-296: one row per record; without any
\* record and with a narrative answer, one "Web Answer" row
prepare_dataframe(data, answer) ==
    LET df == [i \in 1..Len(data) |-> Row(data[i].profile_url, "name", data[i].source)]
    IN IF answer # "" /\ df = <<>> THEN <<Row("", "Web Answer", "Compound-Beta")>> ELSE df

\* _prepare_final_results
_prepare_final_results ==
    [scraped_data_count |-> Len(scraped_data),
     cleaned_data_count |-> IF cleaned_data # <<>> THEN Len(cleaned_data[1]) ELSE 0,
     report_generated |-> final_report # "",
     workflow_status |-> "completed"]

\* The except clause of a step (log_error on the step's task, raise), then the
\* except clause of execute_workflow (log_error on "workflow", which is no
\* task, raise).  ts is the task table when the exception is raised.
StepRaises(ts, task_id, msg) ==
    LET ts1 == log_error(ts, task_id, msg)
        p1 == ProgressAfterUpdate(ts1, task_id, overall_progress)
        ts2 == log_error(ts1, "workflow", msg)
    IN /\ tasks' = ts2
       /\ overall_progress' = ProgressAfterUpdate(ts2, "workflow", p1)
       /\ raised' = <<[error |-> msg, step |-> task_id]>>
       /\ pc' = "raised"

\* a step that ends without marking its task COMPLETED
step_completes_in_progress(ts, task_id) ==
    update_task_status(ts, task_id, "in_progress", 100, NoError)

\* the task table after update_task_status(task_id, IN_PROGRESS, 0) and then
\* update_task_status(task_id, COMPLETED, 100)
StepCompletes(ts, task_id) ==
    update_task_status(ts, task_id, "completed", 100, NoError)

\* execute_workflow up to the first step: reset_workflow and print_header
ExecuteWorkflow ==
    /\ pc = "idle"
    /\ \E input \in UserInputs, m \in 1..MaxResultsBound :
         /\ user_input' = input
         /\ max_results' = m
    /\ \/ /\ tasks' = NoTasks
          /\ overall_progress' = [num |-> 0, den |-> 1]
          /\ pc' = "step_task_execution"
          /\ UNCHANGED raised
       \/ \E msg \in ErrorTexts :
            /\ tasks' = log_error(NoTasks, "workflow", msg)
            /\ overall_progress' = [num |-> 0, den |-> 1]
            /\ raised' = <<[error |-> msg, step |-> "workflow"]>>
            /\ pc' = "raised"
    /\ UNCHANGED <<other_vars, rp_vars, scraped_data, cleaned_data, final_report, results, files, ex_vars,
                   time_vars, calls, hist_vars>>

\* _step_task_execution up to the call of execute_tasks
StepTaskExecutionBegin ==
    /\ pc = "step_task_execution"
    /\ calls' = Append(calls, "_step_task_execution")
    /\ LET ts0 == create_task(tasks, "task_execution", "linkedin_scraping")
           ts1 == update_task_status(ts0, "task_execution", "in_progress", 0, NoError)
       IN \/ /\ tasks' = ts1
             /\ overall_progress' = ProgressAfterUpdate(ts1, "task_execution", overall_progress)
             /\ pc' = "execute_tasks"
             /\ UNCHANGED raised
          \/ \E msg \in ErrorTexts : StepRaises(ts0, "task_execution", msg)
    /\ UNCHANGED <<other_vars, rp_vars, user_input, max_results, scraped_data, cleaned_data, final_report, results,
                   files, ex_vars, time_vars, hist_vars>>

\* _step_task_execution from the return of execute_tasks on: the raw data are
\* saved (a failed write is only logged) and the task is COMPLETED
StepTaskExecutionEnd ==
    /\ pc = "execute_return"
    /\ scraped_data' = ex_scraped_data
    /\ files' = IF scraped_data' # <<>> THEN _save_raw_data(files) ELSE files
    /\ LET ts1 == StepCompletes(tasks, "task_execution")
       IN \/ /\ tasks' = ts1
             /\ overall_progress' = ProgressAfterUpdate(ts1, "task_execution", overall_progress)
             /\ pc' = "step_prepare_dataframe"
             /\ UNCHANGED raised
          \/ \E msg \in ErrorTexts : StepRaises(ts1, "task_execution", msg)
    /\ UNCHANGED <<other_vars, rp_vars, user_input, max_results, cleaned_data, final_report, results, ex_vars,
                   time_vars, calls, hist_vars>>

\* _step_prepare_dataframe: the step has no await
StepPrepareDataframe ==
    /\ pc = "step_prepare_dataframe"
    /\ calls' = Append(calls, "_step_prepare_dataframe")
    /\ LET ts0 == create_task(tasks, "prepare_dataframe", "data_cleaning")
           ts1 == update_task_status(ts0, "prepare_dataframe", "in_progress", 0, NoError)
           ts2 == StepCompletes(ts1, "prepare_dataframe")
           df == prepare_dataframe(scraped_data, last_search_context.answer)
       IN \/ /\ cleaned_data' = <<df>>
             /\ files' = IF df # <<>> THEN _save_cleaned_data(files) ELSE files
             /\ \/ /\ tasks' = ts2
                   /\ overall_progress' = ProgressAfterUpdate(ts2, "prepare_dataframe", overall_progress)
                   /\ pc' = "step_report_generation"
                   /\ UNCHANGED raised
                \/ \E msg \in ErrorTexts : StepRaises(ts2, "prepare_dataframe", msg)
          \/ /\ \E msg \in ErrorTexts : StepRaises(ts0, "prepare_dataframe", msg)
             /\ UNCHANGED <<cleaned_data, files>>
    /\ UNCHANGED <<other_vars, rp_vars, user_input, max_results, scraped_data, final_report, results, ex_vars,
                   time_vars, hist_vars>>

\* _step_report_generation up to the call of generate_report; without data the
\* report is the fixed "No Data" text and generate_report is not called
StepReportGenerationBegin ==
    /\ pc = "step_report_generation"
    /\ calls' = Append(calls, "_step_report_generation")
    /\ LET ts0 == create_task(tasks, "report_generation", "report_generation")
           ts1 == update_task_status(ts0, "report_generation", "in_progress", 0, NoError)
       IN \/ /\ tasks' = ts1
             /\ overall_progress' = ProgressAfterUpdate(ts1, "report_generation", overall_progress)
             /\ UNCHANGED raised
             /\ IF cleaned_data = <<>> \/ cleaned_data[1] = <<>>
                THEN /\ final_report' = NoDataReport
                     /\ pc' = "step_report_generation_end"
                     /\ UNCHANGED report_step
                ELSE /\ pc' = "generate_report"
                     /\ report_step' = 1
                     /\ UNCHANGED final_report
          \/ /\ \E msg \in ErrorTexts : StepRaises(ts0, "report_generation", msg)
             /\ UNCHANGED <<final_report, report_step>>
    /\ UNCHANGED <<other_vars, user_input, max_results, scraped_data, cleaned_data, results,
                   files, ex_vars, time_vars, hist_vars, ai_analysis, summary_stats>>

\* ReportGeneratorAgent.generate_report: the next of its three calls.  Each
\* component catches its own exceptions and answers a fallback value; of
\* ai_analysis and summary_stats only whether they are bound is kept.
GenerateReport ==
    /\ pc = "generate_report"
    /\ LET component == generate_report_calls[report_step]
       IN /\ calls' = Append(calls, component)
          /\ report_step' = report_step + 1
          /\ generated_charts' = IF report_step = 1
                                 THEN generate_report_charts(FALSE, generated_charts)
                                 ELSE generated_charts
          /\ last_report' = IF component = "_create_report"
                                 /\ ai_analysis # <<>> /\ summary_stats # <<>>
                            THEN ReportCall(FALSE, 0, generated_charts')
                            ELSE last_report
          /\ \E ok \in BOOLEAN :
               CASE component = "_generate_ai_analysis" ->
                      /\ ai_analysis' = <<"ai_analysis">>
                      /\ UNCHANGED <<summary_stats, final_report, pc, tasks, overall_progress, raised>>
                 [] component = "_generate_summary_statistics" ->
                      /\ summary_stats' = <<"summary_stats">>
                      /\ UNCHANGED <<ai_analysis, final_report, pc, tasks, overall_progress, raised>>
                 [] OTHER ->
                      IF ai_analysis = <<>> \/ summary_stats = <<>>
                      THEN \* an unbound local: generate_report re-raises
                           /\ StepRaises(tasks, "report_generation", "error")
                           /\ UNCHANGED <<ai_analysis, summary_stats, final_report>>
                      ELSE /\ final_report' = IF ok THEN "report" ELSE "Error generating report"
                           /\ pc' = "step_report_generation_end"
                           /\ UNCHANGED <<ai_analysis, summary_stats, tasks, overall_progress, raised>>
    /\ UNCHANGED <<api_vars, upd_vars, unit_vars, user_input, max_results, scraped_data, cleaned_data, results,
                   files, ex_vars, time_vars, hist_vars>>

\* _step_report_generation after the report is there: a generated report is
\* saved (_save_report) and the task is COMPLETED
StepReportGenerationEnd ==
    /\ pc = "step_report_generation_end"
    /\ files' = IF report_step # 0 /\ final_report # "" THEN _save_report(files) ELSE files
    /\ LET ts1 == StepCompletes(tasks, "report_generation")
       IN \/ /\ tasks' = ts1
             /\ overall_progress' = ProgressAfterUpdate(ts1, "report_generation", overall_progress)
             /\ pc' = "prepare_final_results"
             /\ UNCHANGED raised
          \/ \E msg \in ErrorTexts : StepRaises(ts1, "report_generation", msg)
    /\ UNCHANGED <<other_vars, rp_vars, user_input, max_results, scraped_data, cleaned_data,
                   final_report, results, ex_vars, time_vars, calls, hist_vars>>

\* the end of execute_workflow: _prepare_final_results, print_completion_summary
PrepareFinalResults ==
    /\ pc = "prepare_final_results"
    /\ \/ /\ results' = <<_prepare_final_results>>
          /\ pc' = "done"
          /\ UNCHANGED <<tasks, overall_progress, raised>>
       \/ \E msg \in ErrorTexts :
            /\ tasks' = log_error(tasks, "workflow", msg)
            /\ overall_progress' = ProgressAfterUpdate(tasks', "workflow", overall_progress)
            /\ raised' = <<[error |-> msg, step |-> "workflow"]>>
            /\ pc' = "raised"
            /\ UNCHANGED results
    /\ UNCHANGED <<other_vars, rp_vars, user_input, max_results, scraped_data, cleaned_data,
                   final_report, files, ex_vars, time_vars, calls, hist_vars>>

Next ==
    \/ ExecuteWorkflow
    \/ StepTaskExecutionBegin
    \/ ExecuteTasks
    \/ GenerateSearchQueries
    \/ PerformWebSearch
    \/ ExecuteWebSearchAttempt
    \/ ScrapeLinkedinProfiles
    \/ ScrapeProfile
    \/ LinkedinSecondPass
    \/ ScrapeOtherWebsites
    \/ EnrichUrl
    \/ WebOnlyAdd
    \/ ScrapeSpecificUrls
    \/ StepTaskExecutionEnd
    \/ StepPrepareDataframe
    \/ StepReportGenerationBegin
    \/ GenerateReport
    \/ StepReportGenerationEnd
    \/ PrepareFinalResults

\* one run of execute_workflow on a freshly constructed ManusCloneWorkflow
Spec == Init /\ [][Next]_vars

\* ------------------------------------------------------------- api_server

\* the most jobs submitted in one behaviour
MaxJobs == 2

\* the input and max_results fields of the requests sent to POST /api/run
ApiInputs == {"", "  ", "a", " a "}
ApiMaxResults == (0 - 1)..MaxResultsBound

\* a request check that only refuses the empty string
api_run_rejects_empty_only(input) == input = ""

\* api_run, line 87: the request is refused with HTTP 400
api_run_rejects(input) == input = "" \/ Strip(input) = ""

\* api_run, lines 92-101: the JobState of a new job
JobState(input, m) ==
    [status |-> "queued", input |-> Strip(input), max_results |-> Max(m, 1),
     progress |-> 0, results |-> <<>>, error |-> <<>>]

\* uuid.uuid4().hex[:12], taken to be an id no job has yet
NewJobId == Cardinality(DOMAIN jobs) + 1

\* POST /api/run, for a request whose input is one of inputs
ApiRunWith(inputs) ==
    /\ \E input \in inputs, m \in ApiMaxResults :
         IF api_run_rejects(input)
         THEN /\ http' = [input |-> input, status |-> 400, job_id |-> 0]
              /\ UNCHANGED <<jobs, tasks_bg, status_log>>
         ELSE /\ Cardinality(DOMAIN jobs) < MaxJobs
              /\ LET job_id == NewJobId
                 IN /\ jobs' = [j \in DOMAIN jobs \cup {job_id} |->
                                  IF j = job_id THEN JobState(input, m) ELSE jobs[j]]
                    /\ tasks_bg' = [j \in DOMAIN tasks_bg \cup {job_id} |->
                                      IF j = job_id THEN "scheduled" ELSE tasks_bg[j]]
                    /\ status_log' = [j \in DOMAIN status_log \cup {job_id} |->
                                        IF j = job_id THEN <<jobs'[j].status>> ELSE status_log[j]]
                    /\ http' = [input |-> input, status |-> 200, job_id |-> job_id]
    /\ UNCHANGED <<api_answer, run_vars>>

\* POST /api/run
ApiRun == ApiRunWith(ApiInputs)

\* a background task that leaves a failed job in status "running"
job_after_workflow_keep_running(job, ok, msg) ==
    IF ok
    THEN [job EXCEPT !.status = "completed", !.progress = 100, !.results = <<"results">>]
    ELSE [job EXCEPT !.error = <<msg>>]

\* a background task that queues a failed job again
job_after_workflow_requeue(job, ok, msg) ==
    IF ok
    THEN [job EXCEPT !.status = "completed", !.progress = 100, !.results = <<"results">>]
    ELSE [job EXCEPT !.status = "queued", !.error = <<msg>>]

\* a background task that stores results for a failed job too
job_after_workflow_failed_with_results(job, ok, msg) ==
    IF ok
    THEN [job EXCEPT !.status = "completed", !.progress = 100, !.results = <<"results">>]
    ELSE [job EXCEPT !.status = "failed", !.error = <<msg>>, !.results = <<"results">>]

\* a background task that drops the exception of a failed run
job_after_workflow_lost(job, ok, msg) ==
    IF ok
    THEN [job EXCEPT !.status = "completed", !.progress = 100, !.results = <<"results">>]
    ELSE job

\* _run_workflow_background, lines 71-82: the job once execute_workflow has
\* returned (ok) or raised an exception whose text is msg
job_after_workflow(job, ok, msg) ==
    IF ok
    THEN [job EXCEPT !.status = "completed", !.progress = 100, !.results = <<"results">>]
    ELSE [job EXCEPT !.status = "failed", !.error = <<msg>>]

\* _run_workflow_background up to its await: the job is "running"; the
\* constructor of ManusCloneWorkflow raises without GROQ_API_KEY
RunWorkflowBackgroundStart(j) ==
    /\ tasks_bg[j] = "scheduled"
    /\ \/ /\ jobs' = [jobs EXCEPT ![j].status = "running"]
          /\ tasks_bg' = [tasks_bg EXCEPT ![j] = "awaiting"]
          /\ status_log' = [status_log EXCEPT ![j] = Append(@, "running")]
       \/ \E msg \in ErrorTexts :
            /\ jobs' = [jobs EXCEPT ![j] = job_after_workflow([@ EXCEPT !.status = "running"], FALSE, msg)]
            /\ tasks_bg' = [tasks_bg EXCEPT ![j] = "finished"]
            /\ status_log' = [status_log EXCEPT ![j] = @ \o <<"running", jobs'[j].status>>]
    /\ UNCHANGED <<http, api_answer, run_vars>>

\* _run_workflow_background from the await on: execute_workflow returns its
\* results or raises
RunWorkflowBackgroundFinish(j) ==
    /\ tasks_bg[j] = "awaiting"
    /\ \E ok \in BOOLEAN, msg \in ErrorTexts :
         jobs' = [jobs EXCEPT ![j] = job_after_workflow(@, ok, msg)]
    /\ tasks_bg' = [tasks_bg EXCEPT ![j] = "finished"]
    /\ status_log' = [status_log EXCEPT ![j] = Append(@, jobs'[j].status)]
    /\ UNCHANGED <<http, api_answer, run_vars>>

\* api_results: 404 for an unknown job and for a job without results
api_results(js, job_id) ==
    IF job_id \notin DOMAIN js \/ js[job_id].results = <<>> THEN 404 ELSE 200

\* GET /api/results/{job_id}
ApiResults ==
    /\ \E job_id \in 1..MaxJobs :
         api_answer' = [job_id |-> job_id, status |-> api_results(jobs, job_id)]
    /\ UNCHANGED <<jobs, tasks_bg, http, status_log, run_vars>>

NextApi ==
    \/ ApiRun
    \/ \E j \in DOMAIN jobs : RunWorkflowBackgroundStart(j)
    \/ \E j \in DOMAIN jobs : RunWorkflowBackgroundFinish(j)
    \/ ApiResults

\* the API server: requests and background tasks interleave at the awaits
SpecApi == Init /\ [][NextApi]_vars

\* ------------------------------------------- TaskUpdaterAgent, on its own

\* the arguments callers pass to the methods of a TaskUpdaterAgent
TaskIds == {"t1", "t2"}
TaskTypes == {"linkedin_scraping", "other_scraping", "web_search"}
TaskStatuses == {"pending", "in_progress", "completed", "failed", "cancelled"}
ProgressInputs == {NoProgress, 0 - 5, 40, 150}

\* everything but the TaskUpdaterAgent
not_upd_vars == <<pc, user_input, max_results, scraped_data, cleaned_data, final_report, results,
                  raised, files, ex_vars, time_vars, calls, hist_vars, rp_vars, api_vars,
                  chart_vars, unit_vars>>

\* task_updater_agent.create_task(task_id, task_type)
CreateTask ==
    /\ \E task_id \in TaskIds, type \in TaskTypes :
         /\ tasks' = create_task(tasks, task_id, type)
         /\ last_op' = [op |-> "create_task", task_id |-> task_id,
                        progress_percentage |-> NoProgress]
    /\ UNCHANGED <<overall_progress, not_upd_vars>>

\* task_updater_agent.update_task_status(task_id, status, progress_percentage);
\* an error_message is passed by log_error only
UpdateTaskStatus ==
    /\ \E task_id \in TaskIds, status \in TaskStatuses, p \in ProgressInputs :
         /\ tasks' = update_task_status(tasks, task_id, status, p, NoError)
         /\ overall_progress' = ProgressAfterUpdate(tasks', task_id, overall_progress)
         /\ last_op' = [op |-> "update_task_status", task_id |-> task_id,
                        progress_percentage |-> p]
    /\ UNCHANGED not_upd_vars

\* task_updater_agent.log_error(task_id, error)
LogError ==
    /\ \E task_id \in TaskIds, e \in ErrorTexts :
         /\ tasks' = log_error(tasks, task_id, e)
         /\ overall_progress' = ProgressAfterUpdate(tasks', task_id, overall_progress)
         /\ last_op' = [op |-> "log_error", task_id |-> task_id,
                        progress_percentage |-> NoProgress]
    /\ UNCHANGED not_upd_vars

\* task_updater_agent.reset_workflow()
ResetWorkflow ==
    /\ tasks' = NoTasks
    /\ overall_progress' = [num |-> 0, den |-> 1]
    /\ last_op' = [op |-> "reset_workflow", task_id |-> "", progress_percentage |-> NoProgress]
    /\ UNCHANGED not_upd_vars

NextUpdater ==
    \/ CreateTask
    \/ UpdateTaskStatus
    \/ LogError
    \/ ResetWorkflow

\* a TaskUpdaterAgent called in any order with any arguments
SpecUpdater == Init /\ [][NextUpdater]_vars

\* --------------------------------------- ReportGeneratorAgent, on its own

\* the most charts generated_charts holds
MaxCharts == 3

ChartTitles == {"Top Locations", "Top Skills", "Data Sources Distribution"}

\* everything but the ReportGeneratorAgent
not_report_vars == <<pc, user_input, max_results, tasks, overall_progress, scraped_data,
                     cleaned_data, results, raised, files, ex_vars, time_vars, calls, hist_vars,
                     api_vars, upd_vars, unit_vars>>

\* _generate_location_chart, _generate_skills_chart or _generate_source_chart:
\* the chart is appended, unless drawing it raises
GenerateChart ==
    /\ Len(generated_charts) < MaxCharts
    /\ \E title \in ChartTitles, drawn \in BOOLEAN :
         generated_charts' = IF drawn THEN Append(generated_charts, title) ELSE generated_charts
    /\ UNCHANGED <<last_report, rp_vars, final_report, not_report_vars>>

\* a whole call generate_report(cleaned_data, report_format) on non-empty data;
\* the template renders, or _create_report answers its error text
GenerateReportCall ==
    /\ \E include_charts \in BOOLEAN, rendered \in BOOLEAN :
         /\ generated_charts' = generate_report_charts(include_charts, generated_charts)
         /\ last_report' = ReportCall(include_charts, Len(generated_charts), generated_charts')
         /\ final_report' = IF rendered THEN "report" ELSE "Error generating report"
    /\ ai_analysis' = <<"ai_analysis">>
    /\ summary_stats' = <<"summary_stats">>
    /\ report_step' = Len(generate_report_calls) + 1
    /\ UNCHANGED not_report_vars

NextReport ==
    \/ GenerateChart
    \/ GenerateReportCall

\* a ReportGeneratorAgent whose chart methods and generate_report are called
\* in any order
SpecReport == Init /\ [][NextReport]_vars

\* ------------------------------------------- one web search response

MaxLines == 3

\* lines an LLM response may consist of
ResponseLines ==
    { "Answer: yes",
      "more",
      " sources: ",
      "LinkedIn Profiles (if found):",
      "- https://a.io/x (blog)",
      "# https://www.linkedin.com/in/amy",
      "- (https://b.org/y)" }

\* what may follow the lines: nothing, a block cut off before its end, a
\* block whose item has no url, a block of three links
JsonBlocks ==
    { [kind |-> "none", urls |-> <<>>],
      [kind |-> "malformed", urls |-> <<W1>>],
      [kind |-> "results", urls |-> <<"">>],
      [kind |-> "results", urls |-> <<L1, W1, W2>>] }

Contents ==
    { [lines |-> lines, json |-> json] :
        lines \in UNION { [1..k -> ResponseLines] : k \in 0..MaxLines }, json \in JsonBlocks }

not_parse_vars == <<pc, user_input, max_results, wf_vars, files, ex_vars, time_vars, calls,
                    hist_vars, rp_vars, upd_vars, chart_vars, api_vars, scraper_vars, exp_vars>>

\* _execute_web_search_with_retry, lines 300-332: one attempt from the
\* response on, when nothing raises
WebSearchResponse ==
    /\ response = NoContent
    /\ \E c \in Contents, n \in 1..MaxResultsBound :
         /\ response' = c
         /\ parsed' = _parse_structured_search_response(c)
         /\ attempt_results' = [n |-> n, results |-> results_from_response(ResponseOf(c), n)]
    /\ UNCHANGED not_parse_vars

NextSearch == WebSearchResponse

\* web search attempts on responses of any content
SpecSearch == Init /\ [][NextSearch]_vars

\* ------------------------------------------------ the profile scraper

MaxScrapes == 3

\* urls scrape_profile may be called with
ScrapeUrls ==
    { L1,
      "https://www.linkedin.com/company/acme",
      "https://www.linkedin.com/in/acme/company/",
      W1 }

\* page.url after the login form was submitted
UrlsAfterLogin ==
    { "https://www.linkedin.com/feed/",
      "https://www.linkedin.com/mynetwork/",
      "https://www.linkedin.com/checkpoint/challenge" }

\* a test that lets the pages below a company profile pass
is_profile_url_in_only(url) == Contains(url, "linkedin.com/in/")

\* scrape_profile, line 183
is_profile_url(url) == Contains(url, "linkedin.com/in/") /\ ~Contains(url, "/company/")

\* login_to_linkedin, lines 155-179: raise says that a page call raised,
\* current_url is page.url after the form was submitted otherwise
login_to_linkedin(raise, current_url) ==
    IF raise THEN FALSE
    ELSE Contains(current_url, "feed") \/ Contains(current_url, "mynetwork")

not_scraper_vars == <<pc, user_input, max_results, wf_vars, files, ex_vars, time_vars, calls,
                      hist_vars, rp_vars, upd_vars, chart_vars, api_vars, parse_vars, exp_vars>>

\* the try body ends: the return value or the exception waits for the
\* finally clause
EndTryBody(how) ==
    /\ pending' = how
    /\ scrape_pc' = "finally"

\* the call returns result
ScrapeReturns(result) ==
    /\ scrape_result' = result
    /\ scrapes' = scrapes + 1
    /\ pending' = ""
    /\ scrape_pc' = "idle"

\* scrape_profile(url) up to the launch of the browser, lines 181-187
ScrapeProfileBegin ==
    /\ scrape_pc = "idle"
    /\ scrapes < MaxScrapes
    /\ \E url \in ScrapeUrls :
         /\ scrape_url' = url
         /\ scrape_events' = <<>>
         /\ browser' = "none"
         /\ IF is_profile_url(url)
            THEN /\ scrape_pc' = "launch"
                 /\ UNCHANGED <<pending, scrape_result, scrapes>>
            ELSE ScrapeReturns("error: Not a valid LinkedIn profile URL")
    /\ UNCHANGED not_scraper_vars

\* async_playwright() and p.chromium.launch, lines 189-202
LaunchBrowser ==
    /\ scrape_pc = "launch"
    /\ \/ /\ browser' = "open"
          /\ scrape_events' = Append(scrape_events, "launch")
          /\ scrape_pc' = "new_page"
       \/ /\ scrape_pc' = "except"
          /\ UNCHANGED <<browser, scrape_events>>
    /\ UNCHANGED <<scrape_url, pending, scrape_result, scrapes, not_scraper_vars>>

\* browser.new_context and context.new_page, lines 205-208
NewPage ==
    /\ scrape_pc = "new_page"
    /\ \/ scrape_pc' = "login" /\ UNCHANGED pending
       \/ EndTryBody("raise")
    /\ UNCHANGED <<scrape_url, browser, scrape_events, scrape_result, scrapes, not_scraper_vars>>

\* lines 210-211: login_to_linkedin(page) and the return after a failed login
Login ==
    /\ scrape_pc = "login"
    /\ \E raise \in BOOLEAN, current_url \in UrlsAfterLogin :
         IF login_to_linkedin(raise, current_url)
         THEN /\ scrape_events' = Append(scrape_events, "login")
              /\ scrape_pc' = "goto"
              /\ UNCHANGED pending
         ELSE /\ scrape_events' = Append(scrape_events, "login_failed")
              /\ EndTryBody("login_failed")
    /\ UNCHANGED <<scrape_url, browser, scrape_result, scrapes, not_scraper_vars>>

\* lines 213-214: page.goto(url)
GotoProfile ==
    /\ scrape_pc = "goto"
    /\ scrape_events' = Append(scrape_events, "visit")
    /\ \/ scrape_pc' = "extract" /\ UNCHANGED pending
       \/ EndTryBody("raise")
    /\ UNCHANGED <<scrape_url, browser, scrape_result, scrapes, not_scraper_vars>>

\* lines 216-222: extract_profile_data and the return of the profile
ExtractProfile ==
    /\ scrape_pc = "extract"
    /\ \/ EndTryBody("profile")
       \/ EndTryBody("raise")
    /\ UNCHANGED <<scrape_url, browser, scrape_events, scrape_result, scrapes, not_scraper_vars>>

\* lines 224-225: the finally clause closes the browser; then the call
\* returns, or the exception goes on to the except clause
Finally ==
    /\ scrape_pc = "finally"
    /\ browser' = "closed"
    /\ scrape_events' = Append(scrape_events, "close")
    /\ CASE pending = "raise" -> scrape_pc' = "except" /\ UNCHANGED <<pending, scrape_result, scrapes>>
         [] pending = "login_failed" -> ScrapeReturns("error: Failed to login to LinkedIn")
         [] OTHER -> ScrapeReturns("profile")
    /\ UNCHANGED <<scrape_url, not_scraper_vars>>

\* lines 227-232: the except clause
Except ==
    /\ scrape_pc = "except"
    /\ ScrapeReturns("error: Scraping failed")
    /\ UNCHANGED <<scrape_url, browser, scrape_events, not_scraper_vars>>

NextScraper ==
    \/ ScrapeProfileBegin
    \/ LaunchBrowser
    \/ NewPage
    \/ Login
    \/ GotoProfile
    \/ ExtractProfile
    \/ Finally
    \/ Except

\* calls of scrape_profile, one after the other
SpecScraper == Init /\ [][NextScraper]_vars

\* ----------------------------- the detail-page pass of extract_experience

\* list items of the details page: a role with title, company and dates; a
\* company alone; a school under the first title selector and a role under
\* the second; a company with two nested roles, one without company; a
\* skills block; an item whose two texts are equal; a text behind a bullet;
\* an item a query on which raises
ExperienceItems ==
    { Item(<<" Engineer ">>, <<"Acme">>, <<"2020 - 2022">>, <<>>, FALSE),
      Item(<<>>, <<"Initech">>, <<>>, <<>>, FALSE),
      Item(<<"MIT University", "Tutor">>, <<"ab">>, <<>>, <<>>, FALSE),
      Item(<<>>, <<"Globex">>, <<>>,
           <<Role("Dev", "Globex", "2019"), Role("Lead", "", "")>>, FALSE),
      Item(<<"Top skills">>, <<"Python">>, <<>>, <<>>, FALSE),
      Item(<<"Hooli">>, <<"Hooli">>, <<>>, <<>>, FALSE),
      Item(<<"# Intern">>, <<>>, <<>>, <<>>, FALSE),
      Item(<<"Analyst">>, <<"Umbrella">>, <<>>, <<>>, TRUE) }

\* exp_data of each item
item_data == [item \in ExperienceItems |-> exp_data_of(item)] @@ <<>>

not_exp_vars == <<pc, user_input, max_results, wf_vars, files, ex_vars, time_vars, calls,
                  hist_vars, rp_vars, upd_vars, chart_vars, api_vars, parse_vars, scraper_vars>>

\* extract_experience, lines 489-545: the exact selectors of the main profile
\* gave no entry, the details page is opened and its items are queried; an
\* exception there ends the call with the empty list (lines 658-661)
ExtractExperienceBegin ==
    /\ exp_pc = "idle"
    /\ experience' = <<>>
    /\ exp_seen' = <<>>
    /\ exp_done' = 0
    /\ \E raise \in BOOLEAN :
         IF raise
         THEN exp_items' = 0 /\ exp_pc' = "returned"
         ELSE \E n \in 0..MaxItems : exp_items' = n /\ exp_pc' = "items"
    /\ UNCHANGED not_exp_vars

\* lines 547-654: one pass of the loop over exp_items[:5]
ExtractItem ==
    /\ exp_pc = "items"
    /\ exp_done < Min(exp_items, ItemLimit)
    /\ \E item \in ExperienceItems :
         /\ experience' = extract_item(experience, item, item_data[item])
         /\ exp_seen' = Append(exp_seen, item)
    /\ exp_done' = exp_done + 1
    /\ UNCHANGED <<exp_pc, exp_items, not_exp_vars>>

\* lines 656-661: the loop is over and experience is returned
ExtractExperienceReturn ==
    /\ exp_pc = "items"
    /\ exp_done = Min(exp_items, ItemLimit)
    /\ exp_pc' = "returned"
    /\ UNCHANGED <<exp_items, exp_done, exp_seen, experience, not_exp_vars>>

NextExperience ==
    \/ ExtractExperienceBegin
    \/ ExtractItem
    \/ ExtractExperienceReturn

\* one call of extract_experience that reaches the details page
SpecExperience == Init /\ [][NextExperience]_vars

\* ------------------------------------------ a job and its workflow run

\* one input for each kind of run: a LinkedIn search, the scraping of given
\* URLs, a web-only question
LiveInputs ==
    { "linkedin ai engineers",
      "scrape http://x.io/a https://y.org/b",
      "average salary of nurses" }

\* POST /api/run for the first job, with an input of the workflow model
ApiRunFirst ==
    /\ DOMAIN jobs = {}
    /\ ApiRunWith(LiveInputs)

\* the workflow run of a job whose background task is at its await:
\* execute_workflow(job.input, max_results=job.max_results), step by step
WorkflowStep ==
    /\ \E j \in DOMAIN jobs :
         /\ tasks_bg[j] = "awaiting"
         /\ pc = "idle" => user_input' = jobs[j].input /\ max_results' = jobs[j].max_results
    /\ Next

\* _run_workflow_background, lines 66-82, once that run has returned or raised
WorkflowReturns ==
    /\ pc \in {"done", "raised"}
    /\ \E j \in DOMAIN jobs :
         /\ RunWorkflowBackgroundFinish(j)
         /\ jobs'[j] = job_after_workflow(jobs[j], pc = "done",
                                          IF pc = "raised" THEN raised[1].error ELSE "")

\* the next step of the background task
BackgroundStep ==
    \/ \E j \in DOMAIN jobs : RunWorkflowBackgroundStart(j)
    \/ WorkflowStep
    \/ WorkflowReturns

NextLive ==
    \/ ApiRunFirst
    \/ BackgroundStep

\* the event loop goes on running the background task, and every call the
\* workflow awaits returns or raises
LiveFairness == WF_vars(BackgroundStep)

\* one job of the API server together with its workflow run
SpecLive == Init /\ [][NextLive]_vars /\ LiveFairness

\* ------------------------------------------------------------- properties

\* every call of component b comes after a call of component a
CalledBefore(a, b) ==
    \A i \in 1..Len(calls) : calls[i] = b => \E j \in 1..(i - 1) : calls[j] = a

StepNames == <<"_step_task_execution", "_step_prepare_dataframe", "_step_report_generation">>

\* the steps started so far, in order
StepsCalled == SelectSeq(calls, LAMBDA c : c \in Range(StepNames))

\* C1: in a run of execute_workflow the steps started so far are a prefix of
\* task execution, DataFrame preparation, report generation (so none runs
\* twice), and a step has started only if the task of the step before it is
\* COMPLETED.
C1_StepsInOrder ==
    /\ StepsCalled = Take(StepNames, Len(StepsCalled))
    /\ "prepare_dataframe" \in DOMAIN tasks => tasks["task_execution"].status = "completed"
    /\ "report_generation" \in DOMAIN tasks => tasks["prepare_dataframe"].status = "completed"

\* a run that has gone through all three steps
C1_AllStepsRan == pc = "done" /\ Len(StepsCalled) = 3

\* C2: when execute_tasks returns it has collected at most max_results records.
C2_AtMostMaxResults == pc = "execute_return" => Len(ex_scraped_data) <= max_results

\* C3: in a run of execute_tasks the classifier is called before the query
\* generator, the query generator before the web search, and a LinkedIn profile
\* is scraped only after a query has been generated and a web search request
\* has been made.
C3_SearchBeforeScrape ==
    /\ CalledBefore("_analyze_task_type", "_generate_search_queries")
    /\ CalledBefore("_generate_search_queries", "_perform_web_search")
    /\ CalledBefore("_perform_web_search", "scrape_profile")
    /\ CalledBefore("_execute_web_search_with_retry", "scrape_profile")

\* a LinkedIn profile has been scraped
C3_ProfileScraped == "scrape_profile" \in Range(calls)

\* C4, as stated: generate_report calls the statistics summarizer before the AI
\* analysis writer, and the template renderer after both.
C4_StatsBeforeAnalysis ==
    /\ CalledBefore("_generate_summary_statistics", "_generate_ai_analysis")
    /\ CalledBefore("_generate_summary_statistics", "_create_report")
    /\ CalledBefore("_generate_ai_analysis", "_create_report")

\* C4, amended: generate_report calls the AI analysis writer before the
\* statistics summarizer, and the template renderer after both.
C4_AnalysisBeforeStats ==
    /\ CalledBefore("_generate_ai_analysis", "_generate_summary_statistics")
    /\ CalledBefore("_generate_summary_statistics", "_create_report")
    /\ CalledBefore("_generate_ai_analysis", "_create_report")

\* generate_report has called all three components
C4_ReportRendered ==
    /\ "_create_report" \in Range(calls)
    /\ "_generate_summary_statistics" \in Range(calls)
    /\ "_generate_ai_analysis" \in Range(calls)

\* C5, as stated: no output file is written before the report template has
\* been rendered.
C5_NoFileBeforeRender == files # {} => "_create_report" \in Range(calls)

\* C5, amended: the report file is written only after the report template has
\* been rendered, and it is the only file written after that; the search
\* files, the raw-data JSON and the cleaned-data CSV are written earlier.
C5_OnlyReportAfterRender ==
    /\ []("report" \in files => "_create_report" \in Range(calls))
    /\ []("_create_report" \notin Range(calls) /\ pc = "generate_report" =>
            /\ "search_response" \in files => "_execute_web_search_with_retry" \in Range(calls)
            /\ "raw_data" \in files <=> scraped_data # <<>>
            /\ "cleaned_data" \in files)
    /\ [][("_create_report" \in Range(calls)) => files' \subseteq files \cup {"report"}]_vars

\* every kind of output file has been written
C5_AllFilesWritten ==
    {"search_raw", "search_response", "raw_data", "cleaned_data", "report"} \subseteq files

\* C6, as stated: the table has one row per record of the task executor, and
\* the final results report equal counts.
C6_OneRowPerRecord ==
    /\ cleaned_data # <<>> => Len(cleaned_data[1]) = Len(scraped_data)
    /\ pc = "done" => results[1].cleaned_data_count = results[1].scraped_data_count

\* the rows DataFrame preparation makes of the executor's records
C6_Rows ==
    IF scraped_data = <<>> /\ last_search_context.answer # "" THEN 1 ELSE Len(scraped_data)

\* C6, amended: the table has one row per record of the task executor, except
\* that with zero records and a narrative answer from the web search it has the
\* single "Web Answer" row (cleaned_data_count 1, scraped_data_count 0).
C6_OneRowPerRecordOrWebAnswer ==
    /\ cleaned_data # <<>> => Len(cleaned_data[1]) = C6_Rows
    /\ pc = "done" => /\ results[1].scraped_data_count = Len(scraped_data)
                      /\ results[1].cleaned_data_count = C6_Rows

\* a finished run with no record and the "Web Answer" row
C6_WebAnswerRow ==
    /\ pc = "done"
    /\ results[1].scraped_data_count = 0
    /\ results[1].cleaned_data_count = 1
    /\ cleaned_data[1][1].name = "Web Answer"

\* the jobs in status "running"
RunningJobs == {j \in DOMAIN jobs : jobs[j].status = "running"}

\* C7, as stated: at most one job has status "running".
C7_AtMostOneRunning == Cardinality(RunningJobs) <= 1

\* C7, amended: every accepted request has a background task of its own, and a
\* job has status "running" exactly while its own background task is inside
\* its workflow run; so several jobs can be running together.
C7_RunningWhileTaskActive ==
    /\ DOMAIN tasks_bg = DOMAIN jobs
    /\ \A j \in DOMAIN jobs : jobs[j].status = "running" <=> tasks_bg[j] = "awaiting"

\* two workflow runs in progress together
C7_TwoRunning == Cardinality(RunningJobs) >= 2

\* C8: two consecutive rate-limited LLM requests of one executor are at least
\* rate_limit_delay seconds apart.
C8_RequestsApart == request_gap # NoRequest => request_gap >= rate_limit_delay

\* a web search request made after a retry
C8_SecondAttemptMade == request_gap # NoRequest /\ last_attempt.number = 2

\* C9: _execute_web_search_with_retry makes at most max_retries requests per
\* query, goes on to a further attempt only after an attempt that raised, and
\* after a last attempt that raised it returns the empty list.
C9_RetryOnlyAfterException ==
    /\ last_attempt.number <= max_retries
    /\ last_attempt.kind = "retry" => last_attempt.raised
    /\ last_attempt.raised /\ last_attempt.kind # "retry" =>
          /\ last_attempt.kind = "return"
          /\ last_attempt.returned = 0
          /\ last_attempt.number = max_retries
    /\ last_attempt.number # 0 /\ ~last_attempt.raised =>
          /\ last_attempt.kind = "return"
          /\ last_attempt.returned = last_attempt.found

\* every attempt for a query has raised
C9_AllAttemptsRaised ==
    last_attempt.number = max_retries /\ last_attempt.raised /\ last_attempt.kind = "return"

\* C10: POST /api/run answers 400 exactly to an empty or whitespace-only input
\* and then leaves jobs and background tasks as they are; any other input adds
\* exactly one job, "queued", with max_results >= 1, and answers its id.
C10_ApiRun ==
    /\ [](/\ http.status # 0 => (http.status = 400 <=> Strip(http.input) = "")
          /\ http.status = 200 => /\ http.job_id \in DOMAIN jobs
                                  /\ jobs[http.job_id].input = Strip(http.input)
          /\ \A j \in DOMAIN jobs : jobs[j].max_results >= 1)
    /\ [][/\ http' # http /\ http'.status = 400 => UNCHANGED <<jobs, tasks_bg>>
          /\ http' # http /\ http'.status = 200 => http'.job_id \notin DOMAIN jobs
          /\ DOMAIN jobs' # DOMAIN jobs =>
               \E id \in DOMAIN jobs' \ DOMAIN jobs :
                  /\ DOMAIN jobs' = DOMAIN jobs \cup {id}
                  /\ \A j \in DOMAIN jobs : jobs'[j] = jobs[j] /\ tasks_bg'[j] = tasks_bg[j]
                  /\ jobs'[id].status = "queued"
                  /\ tasks_bg'[id] = "scheduled"
                  /\ http'.status = 200 /\ http'.job_id = id]_vars

\* an accepted request after a refused one would not show the refusal; this is
\* a job just queued for an input that had to be stripped
C10_JobQueued ==
    /\ http.status = 200
    /\ http.input = " a "
    /\ jobs[http.job_id].status = "queued"
    /\ jobs[http.job_id].input = "a"

\* the weight of a task type, in tenths
C12_Weight(type) ==
    CASE type = "linkedin_scraping" -> 6
      [] type = "other_scraping" -> 2
      [] OTHER -> 1

\* what a task counts in the mean
C12_Counts(task) ==
    CASE task.status = "completed" -> 100
      [] task.status = "in_progress" -> task.progress_percentage
      [] task.status = "failed" ->
            IF task.progress_percentage < 50 THEN task.progress_percentage ELSE 50
      [] OTHER -> 0

RECURSIVE C12_Sum(_, _, _)
\* the sum over the tasks ids of weight * count (counted) or of weight
C12_Sum(ts, ids, counted) ==
    IF ids = {} THEN 0
    ELSE LET id == CHOOSE x \in ids : TRUE
         IN C12_Weight(ts[id].task_type) * (IF counted THEN C12_Counts(ts[id]) ELSE 1)
                + C12_Sum(ts, ids \ {id}, counted)

\* overall_progress is the weighted mean of the tracked tasks, 0 without tasks:
\* overall_progress * (sum of weights) = sum of weight * count
C12_IsWeightedMean ==
    IF DOMAIN tasks = {} THEN overall_progress.num = 0
    ELSE overall_progress.num * C12_Sum(tasks, DOMAIN tasks, FALSE)
            = C12_Sum(tasks, DOMAIN tasks, TRUE) * overall_progress.den

C12_AlwaysWeightedMean == C12_IsWeightedMean

\* C12, amended: overall_progress is the weighted mean of the tracked tasks
\* after every update_task_status and log_error on a tracked task, and 0 after
\* reset_workflow; create_task leaves the stored value as it is.
C12_WeightedMeanAfterUpdate ==
    /\ [](/\ last_op.op \in {"update_task_status", "log_error"} /\ last_op.task_id \in DOMAIN tasks
               => C12_IsWeightedMean
          /\ last_op.op = "reset_workflow" => DOMAIN tasks = {} /\ overall_progress.num = 0)
    /\ [][last_op'.op = "create_task" => overall_progress' = overall_progress]_vars

\* two tasks tracked, the last call an update of one of them, and a mean that
\* is neither 0 nor 100
C12_MeanOfTwo ==
    /\ last_op.op = "update_task_status"
    /\ DOMAIN tasks = TaskIds
    /\ overall_progress.num > 0
    /\ overall_progress.num < 100 * overall_progress.den
    /\ tasks["t1"].task_type # tasks["t2"].task_type

\* C13: after every call of generate_report generated_charts is empty and the
\* template was given no chart, whatever include_charts said and whatever
\* charts were there before the call.
C13_NoCharts ==
    /\ [](last_report.called => last_report.charts = <<>>)
    /\ [][last_report' # last_report => generated_charts' = <<>>]_vars

\* a call with include_charts set, made when there were charts
C13_ChartsAsked ==
    /\ last_report.called
    /\ last_report.include_charts
    /\ last_report.before > 0
    /\ generated_charts = <<>>

StatusPaths ==
    { <<"queued">>, <<"queued", "running">>,
      <<"queued", "running", "completed">>, <<"queued", "running", "failed">> }

\* C14: the statuses a job is given are queued, running, then completed or
\* failed; its status is the last one given; a completed or failed job keeps
\* its status.
C14_StatusPath ==
    /\ [](\A j \in DOMAIN jobs :
            /\ status_log[j] \in StatusPaths
            /\ jobs[j].status = status_log[j][Len(status_log[j])])
    /\ [][\A j \in DOMAIN jobs :
            jobs[j].status \in {"completed", "failed"} => jobs'[j].status = jobs[j].status]_vars

\* one job completed and another failed
C14_BothEnds ==
    \E i, j \in DOMAIN jobs :
        /\ status_log[i] = <<"queued", "running", "completed">>
        /\ status_log[j] = <<"queued", "running", "failed">>

\* C16: for every job, results is set iff the job is completed, error is set
\* iff it is failed, progress is 100 iff it is completed and 0 otherwise; and
\* GET /api/results has answered 404 unless the job was completed.
C16_JobFields ==
    /\ [](/\ \A j \in DOMAIN jobs :
               /\ jobs[j].results # <<>> <=> jobs[j].status = "completed"
               /\ jobs[j].error # <<>> <=> jobs[j].status = "failed"
               /\ jobs[j].progress = IF jobs[j].status = "completed" THEN 100 ELSE 0
          /\ api_answer.status = 200 =>
               api_answer.job_id \in DOMAIN jobs /\ jobs[api_answer.job_id].status = "completed")
    /\ [][api_answer' # api_answer =>
            (api_answer'.status = 404 <=>
                ~(/\ api_answer'.job_id \in DOMAIN jobs
                  /\ jobs[api_answer'.job_id].status = "completed"))]_vars

\* results were refused for a job that failed with an empty error text
C16_FailedJobRefused ==
    /\ api_answer.status = 404
    /\ api_answer.job_id \in DOMAIN jobs
    /\ jobs[api_answer.job_id].status = "failed"
    /\ jobs[api_answer.job_id].error = <<"">>

\* C15: every job the API server has created is completed or failed in the
\* end, when its background task keeps being run and every awaited call ends.
C15_JobsTerminate ==
    (jobs # NoJobs) ~> (\A j \in DOMAIN jobs : jobs[j].status \in {"completed", "failed"})

\* a job completed by a run that went through the second LinkedIn pass and
\* scraped a profile
C15_CompletedAfterSecondPass ==
    /\ \E j \in DOMAIN jobs : jobs[j].status = "completed"
    /\ pc = "done"
    /\ "scrape_profile" \in Range(calls)
    /\ pass = "second"

WorkflowSteps == <<"task_execution", "prepare_dataframe", "report_generation">>

\* C17: when a step has raised, its task is FAILED with a non-empty
\* error_message, there is no task of a later step, execute_workflow has
\* raised, and the job of the run is failed once its background task ends.
C17_StepFailureRecorded ==
    pc = "raised" /\ raised[1].step # "workflow" =>
        LET step == raised[1].step
            k == CHOOSE i \in 1..3 : WorkflowSteps[i] = step
        IN /\ step \in DOMAIN tasks
           /\ tasks[step].status = "failed"
           /\ tasks[step].error_message # NoError
           /\ \A i \in (k + 1)..3 : WorkflowSteps[i] \notin DOMAIN tasks
           /\ \A j \in DOMAIN jobs : tasks_bg[j] = "finished" => jobs[j].status = "failed"

\* ------------------------------------------- search response properties

NonEmptyUrls(urls) == SelectSeq(urls, LAMBDA u : u # "")

AsResults(urls) == [i \in 1..Len(urls) |-> SearchResult(urls[i], "web")]

\* C18: the results of an attempt are those of the first source that gives a
\* result with a url - the RESULTS_JSON block, else the Sources and LinkedIn
\* Profiles sections, else the links of the raw text - and each has a url.
C18_FirstSourceWithResults ==
    response # NoContent =>
        LET n == attempt_results.n
            from_json == NonEmptyUrls(Take(_extract_results_json(response), OrDefault(n, 5)))
            from_sections == Take(parsed.sources, OrDefault(n, 3))
                                 \o Take(parsed.linkedin_profiles, OrDefault(n, 3))
            from_text == _extract_search_results_from_text(response, 3)
        IN /\ \A i \in 1..Len(attempt_results.results) : attempt_results.results[i].url # ""
           /\ attempt_results.results =
                  AsResults(IF from_json # <<>> THEN from_json
                            ELSE IF from_sections # <<>> THEN from_sections
                            ELSE from_text)

\* the kind of header a stripped line is, "" for a line that is no header
HeaderKind(ln) ==
    CASE Lower(Take(ln, 7)) = "answer:" -> "answer"
      [] Lower(Take(ln, 8)) = "sources:" -> "sources"
      [] Lower(Take(ln, 17)) = "linkedin profiles" -> "linkedin"
      [] OTHER -> ""

HeaderAt(lines, i) == HeaderKind(Strip(lines[i]))

\* the indexes of the header lines
Headers(lines) == {i \in 1..Len(lines) : HeaderAt(lines, i) # ""}

\* the section line i is in: the kind of the last header before it, "" if none
SectionAt(lines, i) ==
    LET before == {h \in Headers(lines) : h < i}
    IN IF before = {} THEN ""
       ELSE HeaderAt(lines, CHOOSE h \in before : \A g \in before : g <= h)

\* the text of a bullet line after its bullet
BulletText(ln) == Strip(LStripChars(Strip(SubSeq(ln, 2, Len(ln))), {"*", Bullet, "-", " "}))

\* whether line i is a bullet of a section of this kind whose text begins with http
IsLinkOf(lines, i, kind) ==
    LET ln == Strip(lines[i])
    IN /\ HeaderAt(lines, i) = ""
       /\ SectionAt(lines, i) = kind
       /\ StartsWith(ln, "-") \/ StartsWith(ln, Bullet)
       /\ StartsWith(BulletText(ln), "http")

\* the links of the sections of this kind, in the order of their lines
LinksOf(lines, kind) ==
    LET at == SelectSeq([i \in 1..Len(lines) |-> i], LAMBDA i : IsLinkOf(lines, i, kind))
    IN [k \in 1..Len(at) |-> FirstField(BulletText(Strip(lines[at[k]])))]

\* the text of the Answer section whose header is line i: the rest of the
\* header line and the lines up to the next header
AnswerText(lines, i) ==
    LET after == {h \in Headers(lines) : h > i}
        end == IF after = {} THEN Len(lines) + 1
               ELSE CHOOSE h \in after : \A g \in after : h <= g
        first == Strip(SubSeq(Strip(lines[i]), 8, Len(Strip(lines[i]))))
    IN Strip(Join(<<first>> \o [k \in 1..(end - i - 1) |-> Strip(lines[i + k])]))

AnswerTexts(lines) == {AnswerText(lines, i) : i \in {h \in Headers(lines) : HeaderAt(lines, h) = "answer"}}

\* C19: the parsed sources and linkedin_profiles are, in the order of the
\* lines, the bullets that begin with http of the lines whose last header
\* before them is 'Sources:' or 'LinkedIn Profiles' (bullets before any header
\* are in neither list), and the parsed answer is the text of an Answer section
\* up to the next header, "" without such a section.
C19_SectionStateMachine ==
    response # NoContent =>
        /\ parsed.sources = LinksOf(response.lines, "sources")
        /\ parsed.linkedin_profiles = LinksOf(response.lines, "linkedin")
        /\ \A i \in 1..Len(parsed.sources) : StartsWith(parsed.sources[i], "http")
        /\ \A i \in 1..Len(parsed.linkedin_profiles) : StartsWith(parsed.linkedin_profiles[i], "http")
        /\ IF AnswerTexts(response.lines) = {} THEN parsed.answer = ""
           ELSE parsed.answer \in AnswerTexts(response.lines)

\* under the Sources header the bullet that is no link is left out and the
\* link is kept without the words that follow it
C19_OneOfTwoBullets ==
    /\ response.lines = <<" sources: ", "- (https://b.org/y)", "- https://a.io/x (blog)">>
    /\ parsed.sources = <<W1>>

\* ----------------------------------------------------- scraper properties

Count(events, e) == Len(SelectSeq(events, LAMBDA x : x = e))

\* C20: scrape_profile launches no browser for a url that is no profile url,
\* visits the profile only after a login that succeeded, keeps to the order
\* launch, login, visit, close, and has closed the browser it launched when it
\* returns, whether with the profile, after a failed login or after an
\* exception.
C20_ScrapeProtocol ==
    /\ ~Contains(scrape_url, "linkedin.com/in/") \/ Contains(scrape_url, "/company/") =>
          scrape_events = <<>> /\ browser = "none"
    /\ \A i \in 1..Len(scrape_events) :
          /\ scrape_events[i] = "launch" => i = 1
          /\ scrape_events[i] \in {"login", "login_failed"} => i = 2
          /\ scrape_events[i] = "visit" => i = 3 /\ scrape_events[2] = "login"
          /\ scrape_events[i] = "close" => i = Len(scrape_events) /\ scrape_events[1] = "launch"
    /\ browser = "open" <=> Count(scrape_events, "launch") = 1 /\ Count(scrape_events, "close") = 0
    /\ scrape_pc = "idle" => browser # "open"
    /\ scrape_pc = "idle" /\ scrape_result = "profile" =>
          scrape_events = <<"launch", "login", "visit", "close">>

\* a second call whose page.goto or extraction raised after the login, and
\* whose browser is closed
C20_ClosedAfterException ==
    /\ scrapes = 2
    /\ scrape_pc = "idle"
    /\ scrape_result = "error: Scraping failed"
    /\ scrape_events = <<"launch", "login", "visit", "close">>
    /\ browser = "closed"

\* ------------------------------------------------ experience properties

\* C21: when the detail-page pass of extract_experience returns, every item
\* it handled (the first 5 of the list) from which a title or a company was
\* extracted and which passes the exclusion and the length checks has its
\* entry in the returned list, whatever the items before it produced. An item
\* without title whose own nested roles gave entries stands in the list with
\* those (line 620) and is left aside here.
C21_RelaxedAcceptance ==
    exp_pc = "returned" =>
        \A i \in 1..Len(exp_seen) :
            LET d == item_data[exp_seen[i]]
                own_roles == nested_entries(exp_seen[i].nested, 1)
            IN (/\ ~exp_seen[i].raises
                /\ has_title_or_company(d) /\ ~is_excluded(d) /\ length_ok(d)
                /\ (d.title # "" \/ own_roles = <<>>))
                   => \E k \in 1..Len(experience) : experience[k] = d

====
